---- MODULE Spec2Model ----
(***************************************************************************)
(* Order fulfilment of the greencart backend: OrderViewSet.create          *)
(* (core/views.py) running as concurrent PostgreSQL transactions           *)
(* (core/settings.py: django.db.backends.postgresql, default isolation     *)
(* READ COMMITTED), the reward progression it calls, and the maintenance   *)
(* operations that touch the same rows.                                    *)
(*                                                                         *)
(* Database semantics modelled:                                            *)
(*  - a statement reads the last committed value of a row, plus the        *)
(*    transaction's own uncommitted writes;                                *)
(*  - SELECT ... FOR UPDATE and UPDATE take the row lock and wait while    *)
(*    another transaction holds it; the lock is released at commit or      *)
(*    rollback; an UPDATE that waited is applied to the newest committed   *)
(*    row version;                                                         *)
(*  - PositiveIntegerField columns carry CHECK (col >= 0): a violating     *)
(*    statement raises IntegrityError;                                     *)
(*  - `with transaction.atomic()` commits when the block is left by a      *)
(*    `return` and rolls back when it is left by an exception;             *)
(*  - a cycle of waiting transactions is broken by the deadlock detector,  *)
(*    which aborts one of them.                                            *)
(* Money and kilograms are integers (cents / units); quantize(0.01) is     *)
(* exact on them.                                                          *)
(***************************************************************************)
EXTENDS Integers, Sequences, FiniteSets, TLC

\* ------------------------------------------------------------------ bounds
NumProcs == 3
MaxStock == 2
MaxQty == 2
MaxLines == 2
MaxAdminOps == 2

\* Procs are the checkout requests there can be; Clients are the two that run
\* against each other under arbitrary request payloads.
Procs == 1..NumProcs
Clients == {1, 2}
BundleIds == {1, 2}
ProductIds == {1, 2}
CompanyIds == {1, 2}
ProducerIds == {1, 2}
Buyer == 9
NoRow == [exists |-> FALSE]
NoReport == [view |-> "none"]
NoUser == 0
NoSession == 0
CartProcs == {1, 2}
NoCartRequest == [kind |-> "none", status |-> 0]
NoCartTx == [ins |-> {}, upd |-> {}, lock |-> {}]
RateProcs == {1, 2}
NoRateRequest == [kind |-> "none", status |-> 0]

\* ------------------------------------------------------------ small helpers
RECURSIVE SumSeq(_)
SumSeq(s) == IF s = <<>> THEN 0 ELSE Head(s) + SumSeq(Tail(s))

RECURSIVE SumOver(_, _)
SumOver(f, S) ==
  IF S = {} THEN 0
  ELSE LET x == CHOOSE y \in S : TRUE IN f[x] + SumOver(f, S \ {x})

SeqToSet(s) == {s[i] : i \in 1..Len(s)}

\* --------------------------------------------------------- request payloads
\* order_item_total_avoided_waste_kg / _co2_kg are taken from the request
\* (views.py:1313-1314); ClientImpacts are the values a client sends.
ClientImpacts == {2}
ShippingCosts == {1}
Lines == [bundle_id : BundleIds, quantity : 1..MaxQty,
          waste : ClientImpacts, co2 : ClientImpacts]

\* RewardTier rows (import_reward_tiers.py seeds waste tiers and producer
\* tiers; titles are distinct).
RewardTiers ==
  { [id |-> 1, title |-> "eco-debutant", is_active |-> TRUE, min_orders |-> 0,
     min_waste_kg |-> 1, min_co2_kg |-> 0, min_producers_supported |-> 0,
     min_savings_eur |-> 0],
    [id |-> 2, title |-> "eco-heros", is_active |-> TRUE, min_orders |-> 0,
     min_waste_kg |-> 4, min_co2_kg |-> 0, min_producers_supported |-> 0,
     min_savings_eur |-> 0],
    [id |-> 3, title |-> "decouverte", is_active |-> TRUE, min_orders |-> 0,
     min_waste_kg |-> 0, min_co2_kg |-> 0, min_producers_supported |-> 1,
     min_savings_eur |-> 0] }

\* ---------------------------------------------------------------- variables
VARIABLES
  bundleRow,      \* ProductBundle table (committed)
  productRow,     \* Product table (committed)
  bundleItems,    \* ProductBundleItem rows of each bundle, in id order
  companyRow,     \* Company table
  producerRow,    \* CustomUser rows of the company owners
  orderRow,       \* Order table (committed); the order of request t has id t
  orderItems,     \* OrderItem table (committed)
  progressRow,    \* UserRewardProgress row of the buyer (committed)
  rewards,        \* Reward table (committed)
  pc,             \* position of each request in OrderViewSet.create
  req,            \* items_data of the request, as far as the loop has read it
  bundle,         \* the ProductBundle instance read by select_for_update
  products_stock, \* the dict read at views.py:1197
  k,              \* index of the next component to decrement
  order,          \* the Order row as last saved by the open transaction
  acc,            \* the locals order_subtotal and order_total_savings
  txItems,        \* OrderItem rows inserted by the open transaction
  prog,           \* the in-memory UserRewardProgress instance
  txProg,         \* uncommitted write of the progress row: "none","insert","update"
  txRewards,      \* Reward rows inserted by the open transaction
  pendB,          \* uncommitted bundle decrements of each transaction
  pendP,          \* uncommitted product decrements of each transaction
  lockB,          \* bundle row locks held by each transaction
  lockP,          \* product row locks held by each transaction
  outcome,        \* HTTP outcome of each request
  resp,           \* the "products" list of a 409 response
  cmd,            \* position of the reassign_orders rebuild of the buyer
  cmdProg,        \* the in-memory progress instance of the rebuild
  adminOps,       \* number of catalogue and order maintenance requests served
  stock0,         \* the bundle stocks of the initial state
  report,         \* the response of the last analytics request
  cartRow,        \* Cart table; the cart with id c is cartRow[c]
  cartItems,      \* CartItem table (committed)
  cartPc,         \* position of each cart request
  cartReq,        \* the locals of each cart request
  cartTx,         \* uncommitted CartItem writes and row locks of each cart request
  cartOps,        \* number of cart requests received
  ratePc,         \* position of each rating request
  rateReq,        \* the locals of each rating request
  rateClock       \* timezone.now(), counted in rating saves

dbVars == <<bundleRow, productRow, orderRow, orderItems, progressRow, rewards>>
catalogVars == <<bundleItems, companyRow, producerRow>>
localVars == <<req, bundle, products_stock, k, order, acc, txItems, prog>>
txVars == <<txProg, txRewards, pendB, pendP, lockB, lockP>>
cmdVars == <<cmd, cmdProg, adminOps>>
cartReqVars == <<cartPc, cartReq, cartTx, cartOps>>
cartVars == <<cartRow, cartItems, cartReqVars>>
rateVars == <<ratePc, rateReq, rateClock>>
vars == <<dbVars, catalogVars, pc, localVars, txVars, outcome, resp, cmdVars, stock0, report,
          cartVars, rateVars>>

\* ------------------------------------------------------------ initial state
\* Two bundles: bundle 1 = 1 x product 1, and bundle 2 = 2 x product 2, with
\* or without 1 x product 1 as a component shared with bundle 1.  Each bundle
\* on its own passed creation validation (quantity * stock <= product.stock);
\* a bundle saved with stock 0 is out_of_stock (ProductBundle.save).  The
\* buyer's progress
\* row may already exist (RewardViewSet.progress creates it on a first read).
ZeroProgress ==
  [exists |-> TRUE, total_orders |-> 0, total_waste_kg |-> 0, total_co2_kg |-> 0,
   total_savings_eur |-> 0, producers_supported |-> 0, seen_producer_ids |-> {}]

NoOrder == [exists |-> FALSE]
NoBundle == [exists |-> FALSE]

\* ProductBundle.save (models.py:373-379): a published bundle saved with
\* stock 0 becomes out_of_stock.
save_bundle(bnd) ==
  IF bnd.stock = 0 /\ bnd.status = "published"
  THEN [bnd EXCEPT !.status = "out_of_stock"] ELSE bnd

\* ProductBundleViewSet._validate_and_calculate (views.py:861-884): a bundle
\* with components of one company whose stock the products cover gets its
\* prices from the products and its discount percentage; otherwise the
\* ValidationError leaves the row as the serializer saved it.
_validate_and_calculate(bnd, items, products) ==
  LET companies == {products[items[i].product].company : i \in 1..Len(items)}
      total_price == SumSeq([i \in 1..Len(items) |->
                       products[items[i].product].original_price * items[i].quantity])
      valid == /\ items # <<>>
               /\ Cardinality(companies) = 1
               /\ \A i \in 1..Len(items) :
                    items[i].quantity * bnd.stock <= products[items[i].product].stock
  IN IF ~valid THEN bnd
     ELSE save_bundle([bnd EXCEPT
            !.original_price = total_price,
            !.discounted_price =
               (total_price * (100 - bnd.discounted_percentage)) \div 100])

InitProductRow ==
  [p \in ProductIds |->
     [exists |-> TRUE, stock |-> p * MaxStock, sold_units |-> 0,
      title |-> "produit", company |-> 1, original_price |-> 2 * p]]

InitBundleRow(stock, catalog) ==
  [b \in BundleIds |->
    _validate_and_calculate(
      [exists |-> TRUE, is_active |-> TRUE, stock |-> stock[b], sold_bundles |-> 0,
       status |-> "published", title |-> "lot", discounted_percentage |-> 50,
       original_price |-> 0, discounted_price |-> 0],
      catalog[b], InitProductRow)]

SharedCatalog ==
  (1 :> << [product |-> 1, quantity |-> 1] >>) @@
  (2 :> << [product |-> 1, quantity |-> 1], [product |-> 2, quantity |-> 2] >>)

DisjointCatalog ==
  (1 :> << [product |-> 1, quantity |-> 1] >>) @@
  (2 :> << [product |-> 2, quantity |-> 2] >>)

Init ==
  /\ bundleItems \in {SharedCatalog, DisjointCatalog}
  /\ \E stock \in [BundleIds -> 0..MaxStock] :
       bundleRow = InitBundleRow(stock, bundleItems)
  /\ productRow = InitProductRow
  /\ companyRow = [c \in CompanyIds |-> [exists |-> TRUE, name |-> "ferme", owner |-> c]]
  /\ producerRow = [u \in ProducerIds |-> [exists |-> TRUE, name |-> "nom"]]
  /\ orderRow = [t \in Procs |-> NoOrder]
  /\ orderItems = {}
  /\ progressRow \in {NoRow, ZeroProgress}
  /\ rewards = {}
  /\ pc = [t \in Procs |-> "idle"]
  /\ req = [t \in Procs |-> <<>>]
  /\ bundle = [t \in Procs |-> NoBundle]
  /\ products_stock = [t \in Procs |-> [p \in ProductIds |-> 0]]
  /\ k = [t \in Procs |-> 1]
  /\ order = [t \in Procs |-> NoOrder]
  /\ acc = [t \in Procs |-> [order_subtotal |-> 0, order_total_savings |-> 0]]
  /\ txItems = [t \in Procs |-> <<>>]
  /\ prog = [t \in Procs |-> NoRow]
  /\ txProg = [t \in Procs |-> "none"]
  /\ txRewards = [t \in Procs |-> {}]
  /\ pendB = [t \in Procs |-> [b \in BundleIds |-> 0]]
  /\ pendP = [t \in Procs |-> [p \in ProductIds |-> 0]]
  /\ lockB = [t \in Procs |-> {}]
  /\ lockP = [t \in Procs |-> {}]
  /\ outcome = [t \in Procs |-> "none"]
  /\ resp = [t \in Procs |-> <<>>]
  /\ cmd = "idle"
  /\ cmdProg = NoRow
  /\ adminOps = 0
  /\ stock0 = [b \in BundleIds |-> bundleRow[b].stock]
  /\ report = NoReport
  /\ cartRow = <<[user |-> Buyer, session_key |-> NoSession, is_active |-> TRUE,
                   pending |-> 0]>>
  /\ cartItems = { [id |-> b, cart |-> 1, bundle |-> b, quantity |-> 1,
                     is_active |-> TRUE] : b \in BundleIds }
  /\ cartPc = [t \in CartProcs |-> "idle"]
  /\ cartReq = [t \in CartProcs |-> NoCartRequest]
  /\ cartTx = [t \in CartProcs |-> NoCartTx]
  /\ cartOps = 0
  /\ ratePc = [t \in RateProcs |-> "idle"]
  /\ rateReq = [t \in RateProcs |-> NoRateRequest]
  /\ rateClock = 0

\* ------------------------------------------------- transaction primitives
\* What a statement of transaction t reads: the committed row plus t's own
\* uncommitted writes.
OwnBundleStock(t, b) == bundleRow[b].stock - pendB[t][b]
OwnProductStock(t, p) == productRow[p].stock - pendP[t][p]
OwnBundleSold(t, b) == bundleRow[b].sold_bundles + pendB[t][b]
OwnProductSold(t, p) == productRow[p].sold_units + pendP[t][p]

\* Mutant: the bundle row is read without FOR UPDATE.
BundleLockedByOther_NoLock(t, b) == FALSE

BundleLockedByOther(t, b) == \E o \in Procs \ {t} : b \in lockB[o]
ProductLockedByOther(t, p) == \E o \in Procs \ {t} : p \in lockP[o]
ProgressLockedByOther(t) == \E o \in Procs \ {t} : txProg[o] # "none"

\* The request-local state is dropped when the request ends; req and outcome
\* are kept as the record of what was asked and answered.
EndRequest(t, result, products) ==
  /\ pc' = [pc EXCEPT ![t] = "done"]
  /\ outcome' = [outcome EXCEPT ![t] = result]
  /\ resp' = [resp EXCEPT ![t] = products]
  /\ bundle' = [bundle EXCEPT ![t] = NoBundle]
  /\ products_stock' = [products_stock EXCEPT ![t] = [p \in ProductIds |-> 0]]
  /\ k' = [k EXCEPT ![t] = 1]
  /\ order' = [order EXCEPT ![t] = NoOrder]
  /\ acc' = [acc EXCEPT ![t] = [order_subtotal |-> 0, order_total_savings |-> 0]]
  /\ txItems' = [txItems EXCEPT ![t] = <<>>]
  /\ prog' = [prog EXCEPT ![t] = NoRow]
  /\ txProg' = [txProg EXCEPT ![t] = "none"]
  /\ txRewards' = [txRewards EXCEPT ![t] = {}]
  /\ pendB' = [pendB EXCEPT ![t] = [b \in BundleIds |-> 0]]
  /\ pendP' = [pendP EXCEPT ![t] = [p \in ProductIds |-> 0]]
  /\ lockB' = [lockB EXCEPT ![t] = {}]
  /\ lockP' = [lockP EXCEPT ![t] = {}]
  /\ UNCHANGED <<req, catalogVars, cmdVars, stock0, report, rateVars>>

\* transaction.atomic() left by an exception: every write of t is discarded.
Rollback(t, result) ==
  /\ EndRequest(t, result, <<>>)
  /\ UNCHANGED <<dbVars, cartVars>>

\* transaction.atomic() left normally (by `return` or by falling off the
\* block): every write of t becomes the committed state.
CommitWrites(t) ==
  /\ bundleRow' = [b \in BundleIds |->
       [bundleRow[b] EXCEPT !.stock = @ - pendB[t][b],
                            !.sold_bundles = @ + pendB[t][b]]]
  /\ productRow' = [p \in ProductIds |->
       [productRow[p] EXCEPT !.stock = @ - pendP[t][p],
                             !.sold_units = @ + pendP[t][p]]]
  /\ orderRow' = [orderRow EXCEPT ![t] = order[t]]
  /\ orderItems' = orderItems \cup SeqToSet(txItems[t])
  /\ progressRow' = IF txProg[t] = "none" THEN progressRow ELSE prog[t]
  /\ rewards' = rewards \cup txRewards[t]

Commit(t, result, products) ==
  /\ EndRequest(t, result, products)
  /\ CommitWrites(t)
  /\ UNCHANGED cartVars

\* ------------------------------------------------------ Order.update_totals
ItemsOfOrder(items, o) == {i \in items : i.order = o /\ i.is_active}

\* An aggregator that adds the lines onto the totals already stored instead
\* of starting from Decimal("0.0"): what update_totals must not be.
update_totals_Accumulate(o, items) ==
  [o EXCEPT
     !.order_total_avoided_waste_kg =
        @ + SumOver([i \in items |-> i.order_item_total_avoided_waste_kg], items),
     !.order_total_avoided_co2_kg =
        @ + SumOver([i \in items |-> i.order_item_total_avoided_co2_kg], items),
     !.order_total_savings =
        @ + SumOver([i \in items |-> i.order_item_savings], items)]

update_totals(o, items) ==
  [o EXCEPT
     !.order_total_avoided_waste_kg =
        SumOver([i \in items |-> i.order_item_total_avoided_waste_kg], items),
     !.order_total_avoided_co2_kg =
        SumOver([i \in items |-> i.order_item_total_avoided_co2_kg], items),
     !.order_total_savings =
        SumOver([i \in items |-> i.order_item_savings], items)]

\* Savings that forget the discounted price.
calculate_savings_NoDiscount(snapshot, quantity) ==
  snapshot.original_price * quantity

\* OrderItem.calculate_savings: from the prices frozen in the snapshot.
calculate_savings(snapshot, quantity) ==
  (snapshot.original_price - snapshot.discounted_price) * quantity

\* ------------------------------------------------------ OrderViewSet.create
\* views.py:1134-1143: a request without items is answered 400 before any
\* row is written.
RejectEmpty(t) ==
  /\ pc[t] = "idle"
  /\ Commit(t, "bad400", <<>>)

\* views.py:1134-1178: open the transaction, resolve the addresses and the
\* payment method, insert the Order row and enter the loop with the first
\* line of items_data.
Start(t, lines) ==
  /\ pc[t] = "idle"
  /\ \E line \in lines, shipping \in ShippingCosts :
       /\ req' = [req EXCEPT ![t] = <<line>>]
       /\ order' = [order EXCEPT ![t] =
            [exists |-> TRUE, user |-> Buyer, status |-> "confirmed",
             subtotal |-> 0, shipping_cost |-> shipping, total_price |-> 0,
             order_total_avoided_waste_kg |-> 0,
             order_total_avoided_co2_kg |-> 0,
             order_total_savings |-> 0,
             customer_rating |-> 0, customer_note |-> "", rated_at |-> 0]]
       /\ pc' = [pc EXCEPT ![t] = "lock"]
       /\ UNCHANGED <<dbVars, catalogVars, bundle, products_stock, k, acc,
                      txItems, prog, txVars, outcome, resp, cmdVars, stock0, report, cartVars, rateVars>>

\* The evaluated bundle_items queryset (views.py:1190-1195): each component
\* with its product and, through select_related, the product's company.
EvalBundleItems(b) ==
  [i \in 1..Len(bundleItems[b]) |->
     LET bi == bundleItems[b][i]
         c == productRow[bi.product].company
     IN [product_id |-> bi.product, quantity |-> bi.quantity,
         product_title |-> productRow[bi.product].title,
         company_id |-> c, company_name |-> companyRow[c].name,
         producer_id |-> companyRow[c].owner,
         producer_name |-> producerRow[companyRow[c].owner].name]]

\* Mutant: a component is decremented by its per-bundle quantity, whatever
\* the ordered quantity.
RequiredUnits_PerBundleOnly(bi, quantity) == bi.quantity

\* views.py:1204 and 1223
RequiredUnits(bi, quantity) == bi.quantity * quantity

\* views.py:1202-1213
Insuff(items, stocks, quantity) ==
  LET short(bi) == stocks[bi.product_id] < RequiredUnits(bi, quantity)
      entry(bi) == [product_id |-> bi.product_id,
                    stock_before |-> stocks[bi.product_id],
                    stock_after |-> stocks[bi.product_id] - RequiredUnits(bi, quantity),
                    per_bundle_quantity |-> bi.quantity]
      shortItems == SelectSeq(items, short)
  IN [i \in 1..Len(shortItems) |-> entry(shortItems[i])]

\* views.py:1181-1219: select_for_update().get() on the bundle of the current
\* line, the bundle stock check, the unlocked read of the component stocks and
\* the component check.
LockAndValidate(t) ==
  /\ pc[t] = "lock"
  /\ LET line == req[t][Len(req[t])]
         b == line.bundle_id
         quantity == line.quantity
     IN IF ~bundleRow[b].exists
        THEN Rollback(t, "error500")
        ELSE /\ ~BundleLockedByOther(t, b)
             /\ LET stock == OwnBundleStock(t, b)
                    items == EvalBundleItems(b)
                    stocks == [p \in ProductIds |-> OwnProductStock(t, p)]
                    insuff == Insuff(items, stocks, quantity)
                IN IF stock < quantity
                   THEN Commit(t, "conflict409", <<>>)
                   ELSE IF insuff # <<>>
                   THEN Commit(t, "conflict409", insuff)
                   ELSE /\ lockB' = [lockB EXCEPT ![t] = @ \cup {b}]
                        /\ bundle' = [bundle EXCEPT ![t] =
                             [bundleRow[b] EXCEPT !.stock = stock] @@
                             [id |-> b, items |-> items]]
                        /\ products_stock' = [products_stock EXCEPT ![t] = stocks]
                        /\ k' = [k EXCEPT ![t] = 1]
                        /\ pc' = [pc EXCEPT ![t] =
                             IF items = <<>> THEN "item" ELSE "decr"]
                        /\ UNCHANGED <<dbVars, catalogVars, req, order, acc, txItems,
                                       prog, txProg, txRewards, pendB, pendP, lockP,
                                       outcome, resp, cmdVars, stock0, report, cartVars, rateVars>>

\* views.py:1222-1227: one UPDATE ... SET stock = stock - n, sold_units =
\* sold_units + n per component.  The statement waits for the row lock and is
\* applied to the newest committed row; CHECK (stock >= 0) and CHECK
\* (sold_units >= 0) of the PositiveIntegerFields (models.py:272, 276) reject
\* it with IntegrityError, which leaves the atomic block by exception.  On a
\* product deleted since the components were read the filter matches no row.
DecrementProduct(t) ==
  /\ pc[t] = "decr"
  /\ LET bi == bundle[t].items[k[t]]
         p == bi.product_id
         required_units == IF productRow[p].exists
                           THEN RequiredUnits(bi, req[t][Len(req[t])].quantity)
                           ELSE 0
     IN /\ ~ProductLockedByOther(t, p)
        /\ IF \/ OwnProductStock(t, p) - required_units < 0
              \/ OwnProductSold(t, p) + required_units < 0
           THEN Rollback(t, "error500")
           ELSE /\ pendP' = [pendP EXCEPT ![t][p] = @ + required_units]
                /\ lockP' = [lockP EXCEPT ![t] =
                     IF productRow[p].exists THEN @ \cup {p} ELSE @]
                /\ k' = [k EXCEPT ![t] = @ + 1]
                /\ pc' = [pc EXCEPT ![t] =
                     IF k[t] = Len(bundle[t].items) THEN "item" ELSE "decr"]
                /\ UNCHANGED <<dbVars, catalogVars, req, bundle, products_stock,
                               order, acc, txItems, prog, txProg, txRewards,
                               pendB, lockB, outcome, resp, cmdVars, stock0, report, cartVars, rateVars>>

\* views.py:1243-1305: the snapshot frozen on the order line.  The entries of
\* "products" carry product id, title and per-bundle quantity; company and
\* producer are taken once, from the first component.
BundleSnapshot(bnd, stock_before, stock_after) ==
  LET first_item == IF bnd.items = <<>> THEN NoRow
                    ELSE [exists |-> TRUE] @@ bnd.items[1]
  IN [id |-> bnd.id, title |-> bnd.title,
      original_price |-> bnd.original_price,
      discounted_price |-> bnd.discounted_price,
      stock_before |-> stock_before, stock_after |-> stock_after,
      company_id |-> IF first_item.exists THEN first_item.company_id ELSE 0,
      company_name |-> IF first_item.exists THEN first_item.company_name ELSE "",
      producer_id |-> IF first_item.exists THEN first_item.producer_id ELSE 0,
      producer_name |-> IF first_item.exists THEN first_item.producer_name ELSE "",
      products |-> [i \in 1..Len(bnd.items) |->
                      [product_id |-> bnd.items[i].product_id,
                       product_title |-> bnd.items[i].product_title,
                       per_bundle_quantity |-> bnd.items[i].quantity]]]

\* views.py:1229-1241 and 1307-1316: the bundle UPDATE, the line amounts, and
\* OrderItem.objects.create, whose save() recomputes the savings from the
\* snapshot and re-runs order.update_totals() and order.save()
\* (models.py:567-572).  The CHECKs of ProductBundle.stock, sold_bundles
\* (models.py:335, 342) and OrderItem.quantity (models.py:538) reject a
\* negative value with IntegrityError.  Then the loop reads the next line or,
\* after the last one, the order totals are written (views.py:1318-1321).
CreateOrderItem(t, lines, maxLines) ==
  /\ pc[t] = "item"
  /\ LET line == req[t][Len(req[t])]
         quantity == line.quantity
         bundle_stock_before == bundle[t].stock
         bundle_stock_after == bundle_stock_before - quantity
         line_total == bundle[t].discounted_price * quantity
         item_savings == (bundle[t].original_price - bundle[t].discounted_price) * quantity
         snapshot == BundleSnapshot(bundle[t], bundle_stock_before, bundle_stock_after)
         newItem == [id |-> <<t, Len(txItems[t]) + 1>>, order |-> t,
                     bundle |-> bundle[t].id, quantity |-> quantity,
                     total_price |-> line_total,
                     order_item_total_avoided_waste_kg |-> line.waste,
                     order_item_total_avoided_co2_kg |-> line.co2,
                     order_item_savings |-> calculate_savings(snapshot, quantity),
                     bundle_snapshot |-> snapshot,
                     is_active |-> TRUE,
                     customer_rating |-> 0, customer_note |-> "", rated_at |-> 0]
         items == Append(txItems[t], newItem)
         saved == update_totals(order[t], ItemsOfOrder(SeqToSet(items), t))
         subtotal == acc[t].order_subtotal + line_total
         savings == acc[t].order_total_savings + item_savings
     IN IF \/ OwnBundleStock(t, bundle[t].id) - quantity < 0
           \/ OwnBundleSold(t, bundle[t].id) + quantity < 0
           \/ quantity < 0
        THEN Rollback(t, "error500")
        ELSE /\ pendB' = [pendB EXCEPT ![t][bundle[t].id] = @ + quantity]
             /\ txItems' = [txItems EXCEPT ![t] = items]
             /\ acc' = [acc EXCEPT ![t] = [order_subtotal |-> subtotal,
                                           order_total_savings |-> savings]]
             /\ \/ \E next \in lines :
                     /\ Len(req[t]) < maxLines
                     /\ req' = [req EXCEPT ![t] = Append(@, next)]
                     /\ order' = [order EXCEPT ![t] = saved]
                     /\ pc' = [pc EXCEPT ![t] = "lock"]
                \/ /\ req' = req
                   /\ order' = [order EXCEPT ![t] =
                        [saved EXCEPT !.subtotal = subtotal,
                                      !.total_price = subtotal + saved.shipping_cost,
                                      !.order_total_savings = savings]]
                   /\ pc' = [pc EXCEPT ![t] = "rw_get"]
             /\ UNCHANGED <<dbVars, catalogVars, bundle, products_stock, k, prog,
                            txProg, txRewards, pendP, lockB, lockP, outcome, resp,
                            cmdVars, stock0, report, cartVars, rateVars>>

\* ------------------------------------------------- update_rewards_for_order
\* views.py:155-162: the ids are read from the key "company_id" of the
\* entries of snapshot["products"].
_collect_producer_ids_from_order(items) ==
  UNION { { p.company_id : p \in
              { q \in SeqToSet(oi.bundle_snapshot.products) :
                  "company_id" \in DOMAIN q /\ q.company_id # 0 } }
          : oi \in items }

\* views.py:165: get_or_create.  The row is read without a lock; when it is
\* missing it is inserted, and the insert waits on the unique index while
\* another transaction holds an uncommitted insert for the same user.
GetOrCreateProgress(t) ==
  /\ pc[t] = "rw_get"
  /\ IF progressRow.exists
     THEN /\ prog' = [prog EXCEPT ![t] = progressRow]
          /\ txProg' = txProg
     ELSE /\ \A o \in Procs \ {t} : txProg[o] # "insert"
          /\ prog' = [prog EXCEPT ![t] = ZeroProgress]
          /\ txProg' = [txProg EXCEPT ![t] = "insert"]
  /\ pc' = [pc EXCEPT ![t] = "rw_save"]
  /\ UNCHANGED <<dbVars, catalogVars, req, bundle, products_stock, k, order, acc,
                 txItems, txRewards, pendB, pendP, lockB, lockP, outcome, resp,
                 cmdVars, stock0, report, cartVars, rateVars>>

\* views.py:168-179: the counters are advanced on the instance read above and
\* prog.save() writes the whole row.
AddOrderToProgress(pr, o, items) ==
  LET merged == pr.seen_producer_ids \cup _collect_producer_ids_from_order(items)
  IN [pr EXCEPT
        !.total_orders = @ + 1,
        !.total_waste_kg = @ + o.order_total_avoided_waste_kg,
        !.total_co2_kg = @ + o.order_total_avoided_co2_kg,
        !.total_savings_eur = @ + o.order_total_savings,
        !.seen_producer_ids = merged,
        !.producers_supported = Cardinality(merged)]

SaveProgress(t) ==
  /\ pc[t] = "rw_save"
  /\ ~ProgressLockedByOther(t)
  /\ prog' = [prog EXCEPT ![t] =
       AddOrderToProgress(prog[t], order[t], ItemsOfOrder(SeqToSet(txItems[t]), t))]
  /\ txProg' = [txProg EXCEPT ![t] = IF @ = "insert" THEN "insert" ELSE "update"]
  /\ pc' = [pc EXCEPT ![t] = "rw_grant"]
  /\ UNCHANGED <<dbVars, catalogVars, req, bundle, products_stock, k, order, acc,
                 txItems, txRewards, pendB, pendP, lockB, lockP, outcome, resp,
                 cmdVars, stock0, report, cartVars, rateVars>>

\* TierReached with the waste threshold alone.
TierReached_WasteOnly(pr, tier) ==
  pr.total_waste_kg >= tier.min_waste_kg

\* views.py:188-194
TierReached(pr, tier) ==
  /\ pr.total_orders >= tier.min_orders
  /\ pr.total_waste_kg >= tier.min_waste_kg
  /\ pr.total_co2_kg >= tier.min_co2_kg
  /\ pr.producers_supported >= tier.min_producers_supported
  /\ pr.total_savings_eur >= tier.min_savings_eur

\* views.py:182-195: tiers whose title the user does not own yet and whose
\* thresholds are met get a Reward row, created without a tier reference.
NewRewards(t, owned) ==
  { [id |-> <<t, tier.id>>, user |-> Buyer, title |-> tier.title, tier |-> 0]
    : tier \in { x \in RewardTiers :
                   x.is_active /\ x.title \notin owned /\ TierReached(prog[t], x) } }

GrantRewards(t) ==
  /\ pc[t] = "rw_grant"
  /\ LET owned == { r.title : r \in { x \in rewards \cup txRewards[t] : x.user = Buyer } }
     IN txRewards' = [txRewards EXCEPT ![t] = @ \cup NewRewards(t, owned)]
  /\ pc' = [pc EXCEPT ![t] = "commit"]
  /\ UNCHANGED <<dbVars, catalogVars, req, bundle, products_stock, k, order, acc,
                 txItems, prog, txProg, pendB, pendP, lockB, lockP, outcome, resp,
                 cmdVars, stock0, report, cartVars, rateVars>>

\* utils.py:52-73 (and views.py:1652-1666, the same resolver): the active
\* carts of the authenticated user, or of the session key of a guest.  A
\* cart row is saved again only when it is deactivated, so among active
\* carts the order by -updated_at is the order of creation, latest first.
ActiveCartsOf(carts, user, key) ==
  {c \in DOMAIN carts :
     /\ carts[c].is_active /\ carts[c].pending = 0
     /\ IF user # NoUser THEN carts[c].user = user
        ELSE carts[c].user = NoUser /\ carts[c].session_key = key}

NewCart(user, key, tx) ==
  [user |-> user, session_key |-> IF user # NoUser THEN NoSession ELSE key,
   is_active |-> TRUE, pending |-> tx]

CartsAfterGetOrCreate(carts, user, key) ==
  IF ActiveCartsOf(carts, user, key) # {} THEN carts
  ELSE Append(carts, NewCart(user, key, 0))

get_or_create_cart(carts, user, key) ==
  IF ActiveCartsOf(carts, user, key) # {}
  THEN CHOOSE c \in ActiveCartsOf(carts, user, key) :
         \A d \in ActiveCartsOf(carts, user, key) : d <= c
  ELSE Len(carts) + 1

\* views.py:1326-1341: the active cart items of the purchased bundles are
\* deactivated, then the cart itself.
purchased_bundle_ids(t) == {req[t][n].bundle_id : n \in 1..Len(req[t])}

CartCleanup(t) ==
  LET cart == get_or_create_cart(cartRow, Buyer, NoSession)
      carts == CartsAfterGetOrCreate(cartRow, Buyer, NoSession)
  IN /\ cartItems' =
          { IF ci.cart = cart /\ ci.bundle \in purchased_bundle_ids(t) /\ ci.is_active
            THEN [ci EXCEPT !.is_active = FALSE] ELSE ci : ci \in cartItems }
     /\ cartRow' = [carts EXCEPT ![cart].is_active = FALSE]

\* views.py:1326-1344: the cart is cleaned while the transaction holds the
\* lock of the buyer's progress row, so no other checkout of the buyer is
\* between its cart statements and its commit; the 201 response then leaves
\* the atomic block.
CommitOrder(t) ==
  /\ pc[t] = "commit"
  /\ EndRequest(t, "created201", <<>>)
  /\ CommitWrites(t)
  /\ CartCleanup(t)
  /\ UNCHANGED cartReqVars

\* --------------------------------------------------------- deadlock detector
\* The transactions holding the lock t is waiting for.
WaitsOn(t) ==
  IF pc[t] = "lock"
  THEN {o \in Procs \ {t} : req[t][Len(req[t])].bundle_id \in lockB[o]}
  ELSE IF pc[t] = "decr"
  THEN {o \in Procs \ {t} : bundle[t].items[k[t]].product_id \in lockP[o]}
  ELSE IF pc[t] = "rw_get" /\ ~progressRow.exists
  THEN {o \in Procs \ {t} : txProg[o] = "insert"}
  ELSE IF pc[t] = "rw_save"
  THEN {o \in Procs \ {t} : txProg[o] # "none"}
  ELSE {}

RECURSIVE ReachN(_, _)
ReachN(S, n) ==
  IF n = 0 THEN S ELSE ReachN(S \cup UNION {WaitsOn(o) : o \in S}, n - 1)

InWaitCycle(t) == t \in ReachN(WaitsOn(t), NumProcs)

\* PostgreSQL aborts a transaction of a wait cycle with "deadlock detected";
\* the OperationalError leaves the atomic block by exception.
DeadlockAbort(t) ==
  /\ InWaitCycle(t)
  /\ Rollback(t, "error500")

\* A checkout with an arbitrary request of up to MaxLines lines.
Checkout(t) ==
  \/ RejectEmpty(t)
  \/ Start(t, Lines)
  \/ LockAndValidate(t)
  \/ DecrementProduct(t)
  \/ CreateOrderItem(t, Lines, MaxLines)
  \/ GetOrCreateProgress(t)
  \/ SaveProgress(t)
  \/ GrantRewards(t)
  \/ CommitOrder(t)
  \/ DeadlockAbort(t)

Next == \E t \in Clients : Checkout(t)

Spec == Init /\ [][Next]_vars

\* The workload of the oversell test: every request of Procs asks for one
\* unit of the bundle the requests before it asked for.  Single-line requests
\* never wait in a cycle, so the deadlock detector has nothing to do here
\* (OversellNoWaitCycle).
UnitLines ==
  {l \in Lines : /\ l.quantity = 1
                 /\ \A o \in Procs : req[o] # <<>> => req[o][1].bundle_id = l.bundle_id}

UnitCheckout(t) ==
  \/ Start(t, UnitLines)
  \/ LockAndValidate(t)
  \/ DecrementProduct(t)
  \/ CreateOrderItem(t, {}, 1)
  \/ GetOrCreateProgress(t)
  \/ SaveProgress(t)
  \/ GrantRewards(t)
  \/ CommitOrder(t)

OversellNext == \E t \in Procs : UnitCheckout(t)

OversellSpec == Init /\ [][OversellNext]_vars

OversellNoWaitCycle == \A t \in Procs : ~InWaitCycle(t)

\* The requests whose lines may ask for no unit or for a negative number of
\* units: int(item['quantity']) accepts any integer (views.py:1182).
AnyQuantities == {-1, 0, 1}
AnyQuantityLines ==
  [bundle_id : BundleIds, quantity : AnyQuantities,
   waste : ClientImpacts, co2 : ClientImpacts]

AnyQuantityCheckout(t) ==
  \/ Start(t, AnyQuantityLines)
  \/ LockAndValidate(t)
  \/ DecrementProduct(t)
  \/ CreateOrderItem(t, AnyQuantityLines, MaxLines)
  \/ GetOrCreateProgress(t)
  \/ SaveProgress(t)
  \/ GrantRewards(t)
  \/ CommitOrder(t)

AnyQuantityNext == AnyQuantityCheckout(1)

AnyQuantitySpec == Init /\ [][AnyQuantityNext]_vars

\* ----------------------------------------------------- maintenance requests
\* Requests of producers and staff that write the rows an order line was
\* built from, and the jobs that rewrite order lines.  Each is one
\* autocommitted write or one atomic block; a write of a row locked by an
\* open checkout waits for it.
BundleTitles == {"lot", "lot bio"}
ProductTitles == {"produit", "produit bio"}
CompanyNames == {"ferme", "ferme bio"}
DiscountPercentages == {0, 50}
Ratings == {1, 5}

\* ProductImpact rows of the products' catalogue entries.
ProductImpactRows ==
  [p \in ProductIds |-> [quantity |-> 1, avoided_waste_kg |-> 1, avoided_co2_kg |-> 3]]

BundleLocked(b) == \E t \in Procs : b \in lockB[t]
ProductLocked(p) == \E t \in Procs : p \in lockP[t]

MaintenanceStep ==
  /\ adminOps < MaxAdminOps
  /\ adminOps' = adminOps + 1
  /\ UNCHANGED <<progressRow, rewards, pc, localVars, txVars, outcome, resp,
                 cmd, cmdProg, stock0, report, cartRow, cartReqVars,
                 rateVars>>

Maintenance ==
  /\ MaintenanceStep
  /\ UNCHANGED cartItems

\* Mutant: OrderItem.bundle declared with on_delete=CASCADE.
SetNullBundle_Cascade(items, bs) == {i \in items : i.bundle \notin bs}

\* models.py:537: OrderItem.bundle is on_delete=SET_NULL.
SetNullBundle(items, bs) ==
  {IF i.bundle \in bs THEN [i EXCEPT !.bundle = 0] ELSE i : i \in items}

\* models.py:425-426: ProductBundleItem rows go with their bundle and with
\* their product (on_delete=CASCADE).
CascadeBundleItems(bs, ps) ==
  [b \in BundleIds |->
     IF b \in bs THEN <<>>
     ELSE SelectSeq(bundleItems[b], LAMBDA bi : bi.product \notin ps)]

DeleteRows(rows, ids) ==
  [x \in DOMAIN rows |-> IF x \in ids THEN [rows[x] EXCEPT !.exists = FALSE] ELSE rows[x]]

\* The orders in os after Order.update_totals() and order.save().
RefreshOrderTotals(orders, items, os) ==
  [o \in DOMAIN orders |->
     IF o \in os /\ orders[o].exists
     THEN update_totals(orders[o], ItemsOfOrder(items, o)) ELSE orders[o]]

\* views.py:819-823 and 832-842: PATCH of a bundle by its producer.
EditBundle(b) ==
  /\ bundleRow[b].exists /\ bundleRow[b].is_active /\ bundleItems[b] # <<>>
  /\ ~BundleLocked(b)
  /\ \E title \in BundleTitles, pct \in DiscountPercentages :
       bundleRow' = [bundleRow EXCEPT ![b] =
          _validate_and_calculate(
             save_bundle([@ EXCEPT !.title = title, !.discounted_percentage = pct]),
             bundleItems[b], productRow)]
  /\ Maintenance
  /\ UNCHANGED <<productRow, bundleItems, companyRow, producerRow, orderRow, orderItems>>

\* views.py:844-859: DELETE of a bundle by its producer deactivates it.
SoftDeleteBundle(b) ==
  /\ bundleRow[b].exists /\ bundleRow[b].is_active /\ bundleItems[b] # <<>>
  /\ Cardinality({companyRow[productRow[bundleItems[b][i].product].company].owner :
                     i \in 1..Len(bundleItems[b])}) = 1
  /\ ~BundleLocked(b)
  /\ bundleRow' = [bundleRow EXCEPT ![b] = save_bundle([@ EXCEPT !.is_active = FALSE])]
  /\ Maintenance
  /\ UNCHANGED <<productRow, bundleItems, companyRow, producerRow, orderRow, orderItems>>

\* admin.py:137-138: deletion of a bundle in the admin site.  The CartItem
\* rows of the bundle go with it (models.py:651, on_delete=CASCADE).
HardDeleteBundle(b) ==
  /\ bundleRow[b].exists
  /\ ~BundleLocked(b)
  /\ bundleRow' = DeleteRows(bundleRow, {b})
  /\ bundleItems' = CascadeBundleItems({b}, {})
  /\ orderItems' = SetNullBundle(orderItems, {b})
  /\ cartItems' = {ci \in cartItems : ci.bundle # b}
  /\ MaintenanceStep
  /\ UNCHANGED <<productRow, companyRow, producerRow, orderRow>>

\* views.py:749-759: PUT/PATCH of a product by its producer.
EditProduct(p) ==
  /\ productRow[p].exists
  /\ ~ProductLocked(p)
  /\ \E title \in ProductTitles, c \in {x \in CompanyIds : companyRow[x].exists} :
       productRow' = [productRow EXCEPT ![p].title = title, ![p].company = c]
  /\ Maintenance
  /\ UNCHANGED <<bundleRow, bundleItems, companyRow, producerRow, orderRow, orderItems>>

\* admin.py:115-116: deletion of a product in the admin site.
HardDeleteProduct(p) ==
  /\ productRow[p].exists
  /\ ~ProductLocked(p)
  /\ productRow' = DeleteRows(productRow, {p})
  /\ bundleItems' = CascadeBundleItems({}, {p})
  /\ Maintenance
  /\ UNCHANGED <<bundleRow, companyRow, producerRow, orderRow, orderItems>>

\* views.py:605-613: PUT/PATCH of a company by its owner.
EditCompany(c) ==
  /\ companyRow[c].exists
  /\ \E name \in CompanyNames : companyRow' = [companyRow EXCEPT ![c].name = name]
  /\ Maintenance
  /\ UNCHANGED <<bundleRow, productRow, bundleItems, producerRow, orderRow, orderItems>>

ProductsOfCompanies(cs) ==
  {p \in ProductIds : productRow[p].exists /\ productRow[p].company \in cs}

\* admin.py:226, models.py:257-261: deletion of a company takes its
\* products with it.
HardDeleteCompany(c) ==
  /\ companyRow[c].exists
  /\ \A p \in ProductsOfCompanies({c}) : ~ProductLocked(p)
  /\ companyRow' = DeleteRows(companyRow, {c})
  /\ productRow' = DeleteRows(productRow, ProductsOfCompanies({c}))
  /\ bundleItems' = CascadeBundleItems({}, ProductsOfCompanies({c}))
  /\ Maintenance
  /\ UNCHANGED <<bundleRow, producerRow, orderRow, orderItems>>

\* utils.py:178-318: the bundles holding a product of the user's companies,
\* then the companies with their products, then the user.
hard_delete_user_and_related(u) ==
  LET company_ids == {c \in CompanyIds : companyRow[c].exists /\ companyRow[c].owner = u}
      products == ProductsOfCompanies(company_ids)
      bundles == {b \in BundleIds :
                    /\ bundleRow[b].exists
                    /\ \E i \in 1..Len(bundleItems[b]) : bundleItems[b][i].product \in products}
  IN /\ producerRow[u].exists
     /\ \A b \in bundles : ~BundleLocked(b)
     /\ \A p \in products : ~ProductLocked(p)
     /\ bundleRow' = DeleteRows(bundleRow, bundles)
     /\ orderItems' = SetNullBundle(orderItems, bundles)
     /\ bundleItems' = CascadeBundleItems(bundles, products)
     /\ companyRow' = DeleteRows(companyRow, company_ids)
     /\ productRow' = DeleteRows(productRow, products)
     /\ producerRow' = DeleteRows(producerRow, {u})
     /\ Maintenance
     /\ UNCHANGED orderRow

\* serializers.py:776-812: PATCH of an order; status is a writable field.
MarkDelivered(o) ==
  /\ orderRow[o].exists /\ orderRow[o].status # "delivered"
  /\ orderRow' = [orderRow EXCEPT ![o].status = "delivered"]
  /\ Maintenance
  /\ UNCHANGED <<bundleRow, productRow, bundleItems, companyRow, producerRow, orderItems>>

\* views.py:1369-1395, for a request served with no other rating request
\* under way: the rating is written with update_fields (rated_at is the
\* number of the request), then OrderItem.save refreshes the order totals.  (The rating aggregates of bundle, products,
\* company and producer are not part of this model.)
rate_order_item(i) ==
  /\ i \in orderItems
  /\ orderRow[i.order].status = "delivered"
  /\ i.is_active /\ i.customer_rating = 0
  /\ \E rating \in Ratings :
       orderItems' = (orderItems \ {i}) \cup
          {[i EXCEPT !.customer_rating = rating, !.customer_note = "",
                     !.rated_at = adminOps + 1]}
  /\ orderRow' = RefreshOrderTotals(orderRow, orderItems', {i.order})
  /\ Maintenance
  /\ UNCHANGED <<bundleRow, productRow, bundleItems, companyRow, producerRow>>

\* fix_bundle_snapshot.py:19-31: the impact of one bundle, from its
\* components as they are now.
BundleImpact(b) ==
  LET n == Len(bundleItems[b])
      imp(i) == ProductImpactRows[bundleItems[b][i].product]
      multiplier(i) == bundleItems[b][i].quantity \div imp(i).quantity
  IN [waste |-> SumSeq([i \in 1..n |-> multiplier(i) * imp(i).avoided_waste_kg]),
      co2 |-> SumSeq([i \in 1..n |-> multiplier(i) * imp(i).avoided_co2_kg])]

\* fix_bundle_snapshot.py:4-55: the lines of the bundle get the recomputed
\* impact (update_fields names the two impact columns only; OrderItem has no
\* attribute "snapshot", so lines 39-44 never run), then the order totals are
\* refreshed.
fix_bundle_snapshots(b) ==
  LET touched == {i \in orderItems : i.bundle = b /\ i.is_active}
      fixed(i) == [i EXCEPT
                     !.order_item_total_avoided_waste_kg = BundleImpact(b).waste,
                     !.order_item_total_avoided_co2_kg = BundleImpact(b).co2]
  IN /\ bundleRow[b].exists
     /\ touched # {}
     /\ orderItems' = (orderItems \ touched) \cup {fixed(i) : i \in touched}
     /\ orderRow' = RefreshOrderTotals(orderRow, orderItems', {i.order : i \in touched})
     /\ Maintenance
     /\ UNCHANGED <<bundleRow, productRow, bundleItems, companyRow, producerRow>>

\* models.py:567-572: OrderItem.save() of a stored line (admin.py:232): the
\* savings are recomputed from the snapshot and the order totals refreshed.
ResaveOrderItem(i) ==
  /\ i \in orderItems /\ i.is_active
  /\ orderItems' = (orderItems \ {i}) \cup
        {[i EXCEPT !.order_item_savings = calculate_savings(i.bundle_snapshot, i.quantity)]}
  /\ orderRow' = RefreshOrderTotals(orderRow, orderItems', {i.order})
  /\ Maintenance
  /\ UNCHANGED <<bundleRow, productRow, bundleItems, companyRow, producerRow>>

\* models.py:555-558: OrderItem.soft_deactivate writes is_active with
\* update_fields; OrderItem.save then refreshes the order totals over the
\* lines the ActiveManager still returns.
soft_deactivate(i) ==
  /\ i \in orderItems /\ i.is_active
  /\ orderItems' = (orderItems \ {i}) \cup {[i EXCEPT !.is_active = FALSE]}
  /\ orderRow' = RefreshOrderTotals(orderRow, orderItems', {i.order})
  /\ Maintenance
  /\ UNCHANGED <<bundleRow, productRow, bundleItems, companyRow, producerRow>>

MaintenanceRequest ==
  \/ \E b \in BundleIds : EditBundle(b)
  \/ \E b \in BundleIds : SoftDeleteBundle(b)
  \/ \E b \in BundleIds : HardDeleteBundle(b)
  \/ \E p \in ProductIds : EditProduct(p)
  \/ \E p \in ProductIds : HardDeleteProduct(p)
  \/ \E c \in CompanyIds : EditCompany(c)
  \/ \E c \in CompanyIds : HardDeleteCompany(c)
  \/ \E u \in ProducerIds : hard_delete_user_and_related(u)
  \/ \E o \in Procs : MarkDelivered(o)
  \/ \E i \in orderItems : rate_order_item(i)
  \/ \E b \in BundleIds : fix_bundle_snapshots(b)
  \/ \E i \in orderItems : ResaveOrderItem(i)
  \/ \E i \in orderItems : soft_deactivate(i)

\* One checkout of a single line, with maintenance requests before, during
\* and after it.
LineCheckout(t) ==
  \/ Start(t, Lines)
  \/ LockAndValidate(t)
  \/ DecrementProduct(t)
  \/ CreateOrderItem(t, {}, 1)
  \/ GetOrCreateProgress(t)
  \/ SaveProgress(t)
  \/ GrantRewards(t)
  \/ CommitOrder(t)

MaintenanceNext == LineCheckout(1) \/ MaintenanceRequest

\* Fully stocked bundles and a buyer without progress row.
MaintenanceInit ==
  /\ Init
  /\ \A b \in BundleIds : bundleRow[b].stock = MaxStock
  /\ ~progressRow.exists

MaintenanceSpec == MaintenanceInit /\ [][MaintenanceNext]_vars

\* ------------------------------------------ reassign_orders: rebuild progress
\* rebuild_progress_for_user(user) for the buyer, statement by statement in
\* autocommit mode (the command opens no transaction).
CatalogUnchanged == UNCHANGED <<bundleRow, productRow, catalogVars, orderRow, orderItems>>

\* reassign_orders.py:18: get_or_create of the progress row.
RebuildGetOrCreate ==
  /\ cmd = "idle"
  /\ IF progressRow.exists
     THEN progressRow' = progressRow
     ELSE /\ \A o \in Procs : txProg[o] # "insert"
          /\ progressRow' = ZeroProgress
  /\ cmdProg' = IF progressRow.exists THEN progressRow ELSE ZeroProgress
  /\ cmd' = "load"
  /\ CatalogUnchanged
  /\ UNCHANGED <<rewards, pc, localVars, txVars, outcome, resp, adminOps, stock0, report, cartVars, rateVars>>

\* reassign_orders.py:17 and 20-38: the totals of the user's committed orders.
RebuiltProgress(pr) ==
  LET os == {o \in Procs : orderRow[o].exists /\ orderRow[o].user = Buyer}
      producers == UNION {_collect_producer_ids_from_order(ItemsOfOrder(orderItems, o))
                            : o \in os}
  IN [pr EXCEPT
        !.total_orders = Cardinality(os),
        !.total_waste_kg =
           SumOver([o \in os |-> orderRow[o].order_total_avoided_waste_kg], os),
        !.total_co2_kg =
           SumOver([o \in os |-> orderRow[o].order_total_avoided_co2_kg], os),
        !.total_savings_eur =
           SumOver([o \in os |-> orderRow[o].order_total_savings], os),
        !.producers_supported = Cardinality(producers),
        !.seen_producer_ids = producers]

RebuildLoad ==
  /\ cmd = "load"
  /\ cmdProg' = RebuiltProgress(cmdProg)
  /\ cmd' = "save"
  /\ CatalogUnchanged
  /\ UNCHANGED <<progressRow, rewards, pc, localVars, txVars, outcome, resp,
                 adminOps, stock0, report, cartVars, rateVars>>

\* reassign_orders.py:39: prog.save() waits for a checkout that has written
\* the row and not yet committed.
RebuildSave ==
  /\ cmd = "save"
  /\ \A o \in Procs : txProg[o] = "none"
  /\ progressRow' = cmdProg
  /\ cmd' = "delete"
  /\ CatalogUnchanged
  /\ UNCHANGED <<rewards, cmdProg, pc, localVars, txVars, outcome, resp,
                 adminOps, stock0, report, cartVars, rateVars>>

\* reassign_orders.py:41: the committed Reward rows of the user are deleted.
RebuildDeleteRewards ==
  /\ cmd = "delete"
  /\ rewards' = {r \in rewards : r.user # Buyer}
  /\ cmd' = "grant"
  /\ CatalogUnchanged
  /\ UNCHANGED <<progressRow, cmdProg, pc, localVars, txVars, outcome, resp,
                 adminOps, stock0, report, cartVars, rateVars>>

\* reassign_orders.py:42-51: one Reward row, with its tier, per tier reached.
RebuildGrant ==
  /\ cmd = "grant"
  /\ rewards' = rewards \cup
       { [id |-> <<0, tier.id>>, user |-> Buyer, title |-> tier.title, tier |-> tier.id]
         : tier \in {x \in RewardTiers : x.is_active /\ TierReached(cmdProg, x)} }
  /\ cmd' = "done"
  /\ CatalogUnchanged
  /\ UNCHANGED <<progressRow, cmdProg, pc, localVars, txVars, outcome, resp,
                 adminOps, stock0, report, cartVars, rateVars>>

rebuild_progress_for_user ==
  \/ RebuildGetOrCreate
  \/ RebuildLoad
  \/ RebuildSave
  \/ RebuildDeleteRewards
  \/ RebuildGrant

\* Checkouts of the buyer while the command rebuilds the buyer's progress.
RebuildNext == (\E t \in Clients : LineCheckout(t)) \/ rebuild_progress_for_user

RebuildSpec == Init /\ [][RebuildNext]_vars

\* ------------------------------------------------------------ Python floats
\* The analytics views convert the Decimal amounts with float() and divide,
\* multiply and add in binary64.  A float is kept exactly: its 53-digit
\* significand m as FloatLimbs digits of base Limb, most significant first
\* (53 = 1 + 4 * 13: the first limb is 1), and the exponent q of its last
\* binary digit: value = m * 2^q.  Zero has no limbs.  Every operation is
\* computed exactly and rounded once to nearest, ties to even (IEEE 754).
LimbBits == 13
FloatLimbs == 5
Limb == 2^LimbBits
HalfLimb == 2^(LimbBits - 1)
ZeroFloat == [m |-> <<>>, q |-> 0]

Front(s) == SubSeq(s, 1, Len(s) - 1)

ZeroLimbs(n) == IF n <= 0 THEN <<>> ELSE [i \in 1..n |-> 0] \o <<>>

\* the limbs of a natural number, and back
RECURSIVE NatLimbs(_)
NatLimbs(n) == IF n = 0 THEN <<>> ELSE Append(NatLimbs(n \div Limb), n % Limb)

RECURSIVE LimbsNat(_)
LimbsNat(L) == IF L = <<>> THEN 0 ELSE Limb * LimbsNat(Front(L)) + L[Len(L)]

\* a limb sequence without its leading zero limbs
Strip(L) ==
  IF \A i \in 1..Len(L) : L[i] = 0 THEN <<>>
  ELSE SubSeq(L, CHOOSE i \in 1..Len(L) : L[i] # 0 /\ \A j \in 1..(i - 1) : L[j] = 0,
              Len(L))

\* L * n + c for a natural n <= Limb
RECURSIVE MulSmall(_, _, _)
MulSmall(L, n, c) ==
  IF L = <<>> THEN NatLimbs(c)
  ELSE LET v == L[Len(L)] * n + c
       IN Append(MulSmall(Front(L), n, v \div Limb), v % Limb)

RECURSIVE AddLimbs(_, _, _)
AddLimbs(a, b, c) ==
  IF a = <<>> /\ b = <<>> THEN NatLimbs(c)
  ELSE LET v == (IF a = <<>> THEN 0 ELSE a[Len(a)])
                + (IF b = <<>> THEN 0 ELSE b[Len(b)]) + c
       IN Append(AddLimbs(IF a = <<>> THEN a ELSE Front(a),
                          IF b = <<>> THEN b ELSE Front(b), v \div Limb),
                 v % Limb)

RECURSIVE MulLimbs(_, _)
MulLimbs(a, b) ==
  IF a = <<>> THEN <<>>
  ELSE AddLimbs(Append(MulLimbs(Front(a), b), 0), MulSmall(b, a[Len(a)], 0), 0)

\* L * 2^s
ShiftLeft(L, s) == MulSmall(L, 2^(s % LimbBits), 0) \o ZeroLimbs(s \div LimbBits)

\* number of binary digits of a positive limb
BitLen(v) == CHOOSE n \in 1..LimbBits : 2^(n - 1) <= v /\ v < 2^n

\* The float nearest to L * 2^q, L without leading zero limbs; sticky tells
\* that the exact value lies strictly between L * 2^q and (L + 1) * 2^q.
\* L is shifted until its first limb is 1, so that the significand is the
\* first FloatLimbs limbs and the next limb decides the rounding.
RoundNearestEven(L, q, sticky) ==
  LET t == (1 + LimbBits - BitLen(L[1])) % LimbBits
      A == Strip(MulSmall(L, 2^t, 0))
      P == A \o ZeroLimbs(FloatLimbs + 1 - Len(A))
      qk == q - t + LimbBits * (Len(A) - FloatLimbs)
      kept == SubSeq(P, 1, FloatLimbs)
      g == P[FloatLimbs + 1]
      rest == \/ sticky
              \/ g % HalfLimb # 0
              \/ \E i \in (FloatLimbs + 2)..Len(P) : P[i] # 0
      up == g >= HalfLimb /\ (rest \/ kept[FloatLimbs] % 2 = 1)
      inc == AddLimbs(kept, <<1>>, 0)
  IN IF ~up THEN [m |-> kept, q |-> qk]
     ELSE IF inc[1] = 2 THEN [m |-> <<1>> \o ZeroLimbs(FloatLimbs - 1), q |-> qk + 1]
     ELSE [m |-> inc, q |-> qk]

FromLimbs(L, q, sticky) ==
  IF Strip(L) = <<>> THEN ZeroFloat ELSE RoundNearestEven(Strip(L), q, sticky)

\* float(n) of a whole amount
float(n) == FromLimbs(NatLimbs(n), 0, FALSE)

\* long division of r / b (0 <= r < b): n limbs after the point, and the
\* remainder left
RECURSIVE FracLimbs(_, _, _)
FracLimbs(r, b, n) ==
  IF n = 0 THEN [limbs |-> <<>>, rem |-> r]
  ELSE LET nxt == FracLimbs((Limb * r) % b, b, n - 1)
       IN [limbs |-> <<(Limb * r) \div b>> \o nxt.limbs, rem |-> nxt.rem]

\* a / b of two ints, a >= 0 < b (Python true division)
TrueDiv(a, b) ==
  LET f == FracLimbs(a % b, b, FloatLimbs + 2)
  IN FromLimbs(NatLimbs(a \div b) \o f.limbs, 0 - LimbBits * (FloatLimbs + 2),
               f.rem # 0)

FloatMul(x, y) ==
  IF x = ZeroFloat \/ y = ZeroFloat THEN ZeroFloat
  ELSE FromLimbs(MulLimbs(x.m, y.m), x.q + y.q, FALSE)

FloatAdd(x, y) ==
  IF x = ZeroFloat THEN y
  ELSE IF y = ZeroFloat THEN x
  ELSE IF x.q >= y.q
       THEN FromLimbs(AddLimbs(ShiftLeft(x.m, x.q - y.q), y.m, 0), y.q, FALSE)
       ELSE FromLimbs(AddLimbs(ShiftLeft(y.m, y.q - x.q), x.m, 0), x.q, FALSE)

\* round(x, 2): the exact value of x rounded to hundredths, ties to even,
\* and the float nearest to that decimal
round2(x) ==
  IF x = ZeroFloat THEN ZeroFloat
  ELSE IF x.q >= 0 THEN x
  ELSE LET s == 0 - x.q
           t == (LimbBits - (s % LimbBits)) % LimbBits
           w == (s + t) \div LimbBits
           A == MulSmall(MulSmall(x.m, 100, 0), 2^t, 0)
           P == ZeroLimbs(w - Len(A)) \o A
           whole == LimbsNat(SubSeq(P, 1, Len(P) - w))
           frac == SubSeq(P, Len(P) - w + 1, Len(P))
           half == frac[1] >= HalfLimb
           more == frac[1] % HalfLimb # 0 \/ \E i \in 2..Len(frac) : frac[i] # 0
           cents == whole + (IF half /\ (more \/ whole % 2 = 1) THEN 1 ELSE 0)
       IN IF cents = 0 THEN ZeroFloat ELSE TrueDiv(cents, 100)

\* ================================================================ analytics
\* The reporting views of analytics_endpoints.py.  They read the committed
\* rows and write nothing; the response is kept in report.
None == 0
AdminScope == 0
Scopes == {AdminScope} \cup ProducerIds

\* dict.get(key, default)
Get(d, key, default) == IF key \in DOMAIN d THEN d[key] ELSE default

\* analytics_scope.py:17-26: the companies of the requesting producer.
_company_ids(user) ==
  {c \in CompanyIds : companyRow[c].exists /\ companyRow[c].owner = user}

\* allowed_company_ids is None in the admin scope.
Allowed(scope, c) == scope = AdminScope \/ c \in _company_ids(scope)

\* The join items__bundle__items__product__company_id__in of the producer
\* scope: the live bundle of the line holds a product of the producer.
LiveBundleOfScope(scope, i) ==
  /\ i.bundle # None
  /\ \E n \in 1..Len(bundleItems[i.bundle]) :
        productRow[bundleItems[i.bundle][n].product].company \in _company_ids(scope)

\* analytics_scope.py:54-74: confirmed and delivered orders; in the producer
\* scope those with a line whose live bundle holds a product of the producer.
get_orders(scope) ==
  {o \in Procs :
     /\ orderRow[o].exists
     /\ orderRow[o].status \in {"confirmed", "delivered"}
     /\ scope # AdminScope =>
          \E i \in orderItems : i.order = o /\ LiveBundleOfScope(scope, i)}

\* The lines a view iterates: active lines of the orders in scope.
ScopedItems(scope) ==
  {i \in orderItems :
     /\ i.is_active /\ i.order \in get_orders(scope)
     /\ scope # AdminScope => LiveBundleOfScope(scope, i)}

\* (company id, per-bundle quantity) of the components, from each source.
SnapshotComponents(snap) ==
  [n \in 1..Len(snap.products) |->
     [cid |-> Get(snap.products[n], "company_id", None),
      cname |-> Get(snap.products[n], "company_name", ""),
      pbq |-> Get(snap.products[n], "per_bundle_quantity", 1)]]

LiveComponents(b) ==
  IF b = None THEN <<>>
  ELSE [n \in 1..Len(bundleItems[b]) |->
          [cid |-> productRow[bundleItems[b][n].product].company,
           cname |-> companyRow[productRow[bundleItems[b][n].product].company].name,
           pbq |-> bundleItems[b][n].quantity]]

TopLevelComponent(snap) ==
  IF Get(snap, "company_id", None) = None THEN <<>>
  ELSE << [cid |-> snap.company_id, cname |-> Get(snap, "company_name", ""),
           pbq |-> 1] >>

CompaniesOf(components) ==
  {components[n].cid : n \in 1..Len(components)} \ {None}

PbqOf(components, c) ==
  SumSeq([n \in 1..Len(components) |->
            IF components[n].cid = c THEN components[n].pbq ELSE 0])

\* analytics_endpoints.py:1983-2022: the snapshot's components when one of
\* them names a company, else the live bundle's, else the snapshot's
\* top-level company with weight 1.
ResolvedComponents(i) ==
  IF CompaniesOf(SnapshotComponents(i.bundle_snapshot)) # {}
  THEN SnapshotComponents(i.bundle_snapshot)
  ELSE IF CompaniesOf(LiveComponents(i.bundle)) # {}
       THEN LiveComponents(i.bundle)
       ELSE TopLevelComponent(i.bundle_snapshot)

\* analytics_endpoints.py:2024-2031: company_pbq, restricted to the scope.
company_pbq(scope, i) ==
  [c \in {x \in CompaniesOf(ResolvedComponents(i)) : Allowed(scope, x)} |->
     PbqOf(ResolvedComponents(i), c)]

\* analytics_endpoints.py:1975 and 2031-2041: the revenue of a line per company.
LineCompanyRevenue(scope, i) ==
  LET pbqs == company_pbq(scope, i)
      total_pbq == SumOver(pbqs, DOMAIN pbqs)
  IN [c \in DOMAIN pbqs |->
        FloatMul(float(i.total_price), TrueDiv(pbqs[c], total_pbq))]

RECURSIVE FloatSumOver(_, _)
FloatSumOver(f, S) ==
  IF S = {} THEN ZeroFloat
  ELSE LET x == CHOOSE y \in S : TRUE IN FloatAdd(FloatSumOver(f, S \ {x}), f[x])

\* analytics_endpoints.py:1974-2041: order_company_revenue.
order_company_revenue(scope) ==
  LET lines == {i \in ScopedItems(scope) :
                  i.total_price > 0 /\ DOMAIN company_pbq(scope, i) # {}}
  IN [o \in {i.order : i \in lines} |->
        LET mine == {i \in lines : i.order = o}
            cs == UNION {DOMAIN company_pbq(scope, i) : i \in mine}
        IN [c \in cs |->
              FloatSumOver([i \in mine |->
                              IF c \in DOMAIN company_pbq(scope, i)
                              THEN LineCompanyRevenue(scope, i)[c] ELSE ZeroFloat],
                           mine)]]

\* analytics_endpoints.py:2043-2058: the name recorded with the resolved
\* components, else the name of the Company row.
company_name_by_id(scope, c) ==
  LET names == UNION {{ResolvedComponents(i)[n].cname :
                         n \in {m \in 1..Len(ResolvedComponents(i)) :
                                  ResolvedComponents(i)[m].cid = c}} :
                      i \in {j \in ScopedItems(scope) : j.total_price > 0}} \ {""}
  IN IF names # {} THEN CHOOSE x \in names : TRUE
     ELSE IF c \in CompanyIds /\ companyRow[c].exists THEN companyRow[c].name
     ELSE ""

\* analytics_endpoints.py:2160-2200: the company cohorts of the response (the
\* orders of the buyer fall in one cohort month and one period).
cohorts_company(scope) ==
  LET rev == order_company_revenue(scope)
      cs == UNION {DOMAIN rev[o] : o \in DOMAIN rev}
  IN [c \in cs |->
        [orders |-> Cardinality({o \in DOMAIN rev : c \in DOMAIN rev[o]}),
         revenue |-> round2(FloatSumOver(
                       [o \in DOMAIN rev |->
                          IF c \in DOMAIN rev[o] THEN rev[o][c] ELSE ZeroFloat],
                       DOMAIN rev)),
         company_name |-> company_name_by_id(scope, c)]]

ReportFrame ==
  UNCHANGED <<dbVars, catalogVars, pc, localVars, txVars, outcome, resp, cmdVars, stock0,
              cartVars, rateVars>>

\* GET /api/(producer|admin)/analytics/cohorts/monthly/
CohortsMonthlyView(scope) ==
  /\ report' = [view |-> "cohorts", scope |-> scope,
                order_company_revenue |-> order_company_revenue(scope),
                cohorts_company |-> cohorts_company(scope)]
  /\ ReportFrame

\* analytics_endpoints.py:1683-1711: the attribution of a line in the impact
\* report.  The first component of the live bundle whose company is allowed
\* gives company and producer; the snapshot's company is read only when
\* that found none.
ImpactAttribution(scope, i) ==
  LET live == LiveComponents(i.bundle)
      hits == {n \in 1..Len(live) : Allowed(scope, live[n].cid)}
      first == CHOOSE n \in hits : \A m \in hits : n <= m
      snap == i.bundle_snapshot
      cid == Get(snap, "company_id", None)
  IN IF hits # {}
     THEN [company_id |-> live[first].cid, company_name |-> live[first].cname,
           producer_id |-> companyRow[live[first].cid].owner]
     ELSE IF cid # None /\ Allowed(scope, cid)
          THEN [company_id |-> cid, company_name |-> Get(snap, "company_name", ""),
                producer_id |-> None]
          ELSE [company_id |-> None, company_name |-> "", producer_id |-> None]

\* analytics_endpoints.py:1713-1738: the rows of the impact report.
ImpactRows(scope) ==
  { [item_id |-> i.id, bundle_id |-> i.bundle] @@ ImpactAttribution(scope, i)
    : i \in ScopedItems(scope) }

\* GET /api/(producer|admin)/analytics/impact/
ImpactView(scope) ==
  /\ report' = [view |-> "impact", scope |-> scope, rows |-> ImpactRows(scope)]
  /\ ReportFrame

\* o.items.all() in id order: the active lines of order o.
RECURSIVE LinesInOrder(_)
LinesInOrder(S) ==
  IF S = {} THEN <<>>
  ELSE LET i == CHOOSE x \in S : \A y \in S : x.id[2] <= y.id[2]
       IN <<i>> \o LinesInOrder(S \ {i})

\* analytics_cross.py:943-955: the credits of one line, in the order the
\* loop adds them: every entry of snapshot["products"] stands for
\* price / len(prods), credited to the company_id the entry names.
LineCredits(i) ==
  LET prods == i.bundle_snapshot.products
  IN [n \in 1..Len(prods) |->
        [cid |-> Get(prods[n], "company_id", None),
         share |-> TrueDiv(i.total_price, Len(prods))]]

RECURSIVE Concat(_)
Concat(ss) == IF ss = <<>> THEN <<>> ELSE ss[1] \o Concat(Tail(ss))

\* by_producer[cid] += share, entry after entry.
RECURSIVE AddCredits(_, _)
AddCredits(sums, credits) ==
  IF credits = <<>> THEN sums
  ELSE AddCredits([sums EXCEPT ![credits[1].cid] = FloatAdd(@, credits[1].share)],
                  Tail(credits))

\* analytics_cross.py:939-955: by_producer of order o.
by_producer(o) ==
  LET lines == LinesInOrder(ItemsOfOrder(orderItems, o))
      credits == SelectSeq(Concat([n \in 1..Len(lines) |-> LineCredits(lines[n])]),
                           LAMBDA c : c.cid # None)
      cs == {credits[n].cid : n \in 1..Len(credits)}
  IN AddCredits([c \in cs |-> ZeroFloat], credits)

\* analytics_cross.py:957-974: the row of order o: the requester's revenue
\* (absent when no company of theirs is credited) and the other companies'.
ProducerShareRow(scope, o) ==
  LET credit == by_producer(o)
      mine == IF scope = AdminScope THEN {}
              ELSE DOMAIN credit \cap _company_ids(scope)
  IN [total_price |-> round2(float(orderRow[o].total_price)),
      my_revenue |-> [c \in mine |-> credit[c]],
      other_producers |-> [c \in DOMAIN credit \ mine |-> round2(credit[c])]]

\* GET /api/(producer|admin)/analytics/cross/producer-share-in-orders/
ProducerShareInOrdersView(scope) ==
  /\ report' = [view |-> "producer_share", scope |-> scope,
                rows |-> [o \in get_orders(scope) |-> ProducerShareRow(scope, o)]]
  /\ ReportFrame

\* The reporting views, called at any moment.
ReportRequest ==
  \/ \E scope \in Scopes : CohortsMonthlyView(scope)
  \/ \E scope \in Scopes : ImpactView(scope)
  \/ \E scope \in Scopes : ProducerShareInOrdersView(scope)

\* The catalogue changes that move a component to another company, rename
\* a company or remove the live rows a line was built from.
CatalogueChange ==
  \/ \E p \in ProductIds : EditProduct(p)
  \/ \E c \in CompanyIds : EditCompany(c)
  \/ \E b \in BundleIds : HardDeleteBundle(b)
  \/ \E p \in ProductIds : HardDeleteProduct(p)
  \/ \E c \in CompanyIds : HardDeleteCompany(c)

ReportNext == LineCheckout(1) \/ CatalogueChange \/ ReportRequest

ReportSpec == MaintenanceInit /\ [][ReportNext]_vars

\* ==================================================================== claims
Ended(t, result) == outcome[t] = "none" /\ outcome'[t] = result

StockCounters ==
  << [b \in BundleIds |-> <<bundleRow[b].stock, bundleRow[b].sold_bundles>>],
     [p \in ProductIds |-> <<productRow[p].stock, productRow[p].sold_units>>] >>

\* C1: the step that answers a checkout with a stock conflict leaves stock and
\* sold counters of every bundle and every product as they were.
C1_ConflictLeavesStock ==
  [][\A t \in Procs : Ended(t, "conflict409") => StockCounters' = StockCounters]_vars

\* C2: the step that ends a checkout in failure (stock conflict or an
\* unresolvable bundle) leaves the Order and OrderItem tables as they were.
C2_FailureLeavesNoOrder ==
  [][\A t \in Procs :
        (Ended(t, "conflict409") \/ Ended(t, "error500"))
           => orderRow' = orderRow /\ orderItems' = orderItems]_vars

\* The newest version of a row, committed or not.
NewestBundleStock(b) == bundleRow[b].stock - SumOver([t \in Procs |-> pendB[t][b]], Procs)
NewestProductStock(p) == productRow[p].stock - SumOver([t \in Procs |-> pendP[t][p]], Procs)

\* A checkout that passed its availability check and has not yet decremented
\* component i holds, for that component, the newest stock of the product.
CheckedStockIsCurrent ==
  \A t \in Procs : pc[t] = "decr" =>
    \A i \in k[t]..Len(bundle[t].items) :
      products_stock[t][bundle[t].items[i].product_id]
         = NewestProductStock(bundle[t].items[i].product_id)

StockNeverNegative ==
  /\ \A b \in BundleIds : NewestBundleStock(b) >= 0 /\ bundleRow[b].stock >= 0
  /\ \A p \in ProductIds : NewestProductStock(p) >= 0 /\ productRow[p].stock >= 0

\* C3: stock is never negative and no availability check rests on a stock
\* value that a concurrent checkout has decremented.
C3_NoNegativeNoStaleRead == StockNeverNegative /\ CheckedStockIsCurrent

\* Every request asked for one unit of bundle b and has been answered.
AllAskedOneOf(b) ==
  \A t \in Procs : /\ pc[t] = "done"
                   /\ Len(req[t]) = 1
                   /\ req[t][1].bundle_id = b
                   /\ req[t][1].quantity = 1

Answered(result) == {t \in Procs : outcome[t] = result}

\* C4: N checkouts of one unit of a bundle with stock S < N end in exactly S
\* successes and N - S stock conflicts, and the bundle's stock is 0.
C4_NoOversell ==
  \A b \in BundleIds :
    (AllAskedOneOf(b) /\ stock0[b] < NumProcs) =>
       /\ Cardinality(Answered("created201")) = stock0[b]
       /\ Cardinality(Answered("conflict409")) = NumProcs - stock0[b]
       /\ bundleRow[b].stock = 0

C4_Witness ==
  \E b \in BundleIds :
    /\ AllAskedOneOf(b)
    /\ stock0[b] < NumProcs
    /\ Answered("created201") # {}
    /\ Answered("conflict409") # {}

\* C5: a checkout takes its bundle locks in ascending id order, and no set of
\* checkouts ever waits in a cycle.
C5_AscendingLocksNoDeadlock ==
  /\ \A t \in Procs : pc[t] = "lock" =>
        \A held \in lockB[t] : held < req[t][Len(req[t])].bundle_id
  /\ \A t \in Procs : ~InWaitCycle(t)

\* The bundle units and the component units a request asked for.
RequestedBundles(t, b) ==
  SumSeq([i \in 1..Len(req[t]) |->
            IF req[t][i].bundle_id = b THEN req[t][i].quantity ELSE 0])

RECURSIVE QuantityPerBundle(_, _)
QuantityPerBundle(its, p) ==
  IF its = <<>> THEN 0
  ELSE (IF Head(its).product = p THEN Head(its).quantity ELSE 0)
       + QuantityPerBundle(Tail(its), p)

RequestedUnits(t, p) ==
  SumSeq([i \in 1..Len(req[t]) |->
            QuantityPerBundle(bundleItems[req[t][i].bundle_id], p) * req[t][i].quantity])

\* C6: the step that completes a successful checkout lowers each bundle's
\* stock by the quantity requested for it and each product's stock by the
\* component units requested, raises the sold counters by the same amounts,
\* and leaves every other bundle and product alone.
C6_SuccessDecrementsExactly ==
  [][\A t \in Procs : Ended(t, "created201") =>
        /\ \A b \in BundleIds :
             /\ bundleRow'[b].stock = bundleRow[b].stock - RequestedBundles(t, b)
             /\ bundleRow'[b].sold_bundles = bundleRow[b].sold_bundles + RequestedBundles(t, b)
        /\ \A p \in ProductIds :
             /\ productRow'[p].stock = productRow[p].stock - RequestedUnits(t, p)
             /\ productRow'[p].sold_units = productRow[p].sold_units + RequestedUnits(t, p)]_vars

C6_Witness ==
  \E t \in Procs :
    /\ outcome[t] = "created201"
    /\ Len(req[t]) = 2
    /\ req[t][1].bundle_id # req[t][2].bundle_id
    /\ bundleItems = SharedCatalog

\* C7: a bundle whose stock reached 0 through checkout is out_of_stock.
C7_SoldOutIsOutOfStock ==
  \A b \in BundleIds :
    (bundleRow[b].stock = 0 /\ bundleRow[b].sold_bundles > 0)
       => bundleRow[b].status = "out_of_stock"

\* C8: a maintenance request or a later checkout step leaves every stored
\* order line in place with its bundle_snapshot unchanged, and a line whose
\* bundle is deleted by the step has a null bundle reference afterwards.
C8_SnapshotImmutable ==
  [][\A i \in orderItems :
       \E j \in orderItems' :
          /\ j.id = i.id
          /\ j.bundle_snapshot = i.bundle_snapshot
          /\ j.bundle \in {i.bundle, 0}
          /\ (i.bundle # 0 /\ ~bundleRow'[i.bundle].exists) => j.bundle = 0]_vars

\* An order line whose bundle was deleted and one of whose products was
\* renamed after the order.
C8_Witness ==
  \E i \in orderItems :
    /\ i.bundle = 0
    /\ ~bundleRow[i.bundle_snapshot.id].exists
    /\ \E n \in 1..Len(i.bundle_snapshot.products) :
         LET sp == i.bundle_snapshot.products[n]
         IN productRow[sp.product_id].exists
            /\ productRow[sp.product_id].title # sp.product_title

\* The tier a Reward row stands for: its tier reference or, for the rows
\* created without one, the tier of the same title.
RewardsOfTier(tier) ==
  {r \in rewards : r.user = Buyer /\ (r.tier = tier.id \/ (r.tier = 0 /\ r.title = tier.title))}

\* C9: the buyer never holds two Reward rows of one tier.
C9_OneRewardPerTier ==
  \A tier \in RewardTiers : Cardinality(RewardsOfTier(tier)) <= 1

\* The totals of order o agree with its lines in the set S.
TotalsOver(o, S) ==
  /\ orderRow[o].subtotal = SumOver([i \in S |-> i.total_price], S)
  /\ orderRow[o].total_price = orderRow[o].subtotal + orderRow[o].shipping_cost
  /\ orderRow[o].order_total_avoided_waste_kg =
        SumOver([i \in S |-> i.order_item_total_avoided_waste_kg], S)
  /\ orderRow[o].order_total_avoided_co2_kg =
        SumOver([i \in S |-> i.order_item_total_avoided_co2_kg], S)
  /\ orderRow[o].order_total_savings = SumOver([i \in S |-> i.order_item_savings], S)

\* C11: the order of a successful checkout carries, in every later state, the
\* sums of its lines: over all its lines or over its active lines.
C11_OrderTotalsConsistent ==
  \A o \in Procs :
    (outcome[o] = "created201" /\ orderRow[o].exists) =>
       \/ TotalsOver(o, {i \in orderItems : i.order = o})
       \/ TotalsOver(o, ItemsOfOrder(orderItems, o))

\* C12: Order.update_totals is idempotent and deterministic: on the unchanged
\* lines of an order, a second run gives the totals of the first run, and
\* the totals do not depend on what the order row held before the run.
C12_UpdateTotalsIdempotent ==
  \A o \in Procs :
    orderRow[o].exists =>
      LET S    == ItemsOfOrder(orderItems, o)
          once == update_totals(orderRow[o], S)
          blank == [orderRow[o] EXCEPT !.order_total_avoided_waste_kg = 0,
                                       !.order_total_avoided_co2_kg = 0,
                                       !.order_total_savings = 0]
      IN  /\ update_totals(once, S) = once
          /\ update_totals(update_totals(once, S), S) = once
          /\ update_totals(blank, S) = once

C12_Witness ==
  \E o \in Procs :
    /\ outcome[o] = "created201" /\ orderRow[o].exists
    /\ Cardinality(ItemsOfOrder(orderItems, o)) = 2
    /\ orderRow[o].order_total_avoided_waste_kg > 0
    /\ orderRow[o].order_total_savings > 0

\* The components of a line as the snapshot lists them, each with the company
\* behind it: the one the snapshot entry names, else the company of the
\* product, reached through the live bundle.
ComponentCompanies(i) ==
  [n \in 1..Len(i.bundle_snapshot.products) |->
     LET p == i.bundle_snapshot.products[n]
     IN [cid |-> IF Get(p, "company_id", None) # None THEN p.company_id
                 ELSE IF /\ i.bundle # None
                         /\ \E m \in 1..Len(bundleItems[i.bundle]) :
                               bundleItems[i.bundle][m].product = p.product_id
                      THEN productRow[p.product_id].company
                      ELSE None,
         pbq |-> p.per_bundle_quantity]]

AllComponentsResolve(i) ==
  /\ i.bundle_snapshot.products # <<>>
  /\ \A n \in 1..Len(ComponentCompanies(i)) : ComponentCompanies(i)[n].cid # None

ProportionalShare(i, c) ==
  FloatMul(float(i.total_price),
           TrueDiv(PbqOf(ComponentCompanies(i), c),
                   SumSeq([n \in 1..Len(ComponentCompanies(i)) |->
                             ComponentCompanies(i)[n].pbq])))

\* C13: for a line whose components all resolve to companies, the revenue a
\* report attributes to a company is total_price times the per-bundle
\* quantity of that company's components over the per-bundle quantity of
\* all components, and the amounts of all companies sum to total_price.
C13_ProportionalAttribution ==
  \A scope \in Scopes :
    \A i \in ScopedItems(scope) :
      (i.total_price > 0 /\ AllComponentsResolve(i)) =>
         LET rev == LineCompanyRevenue(scope, i)
         IN /\ \A c \in DOMAIN rev : rev[c] = ProportionalShare(i, c)
            /\ scope = AdminScope =>
                  FloatSumOver(rev, DOMAIN rev) = float(i.total_price)

\* C14: the products list of a 409 answer names every component of the
\* refused line whose stock is below per-bundle quantity x ordered quantity,
\* with the stock the checkout sees, the stock less the required units and
\* the per-bundle quantity.
C14_ConflictListsEveryShortComponent ==
  [][\A t \in Procs :
       Ended(t, "conflict409") =>
         LET line == req[t][Len(req[t])]
             items == bundleItems[line.bundle_id]
         IN \A n \in 1..Len(items) :
              LET stock == OwnProductStock(t, items[n].product)
                  required_units == items[n].quantity * line.quantity
              IN stock < required_units =>
                   \E m \in 1..Len(resp'[t]) :
                      /\ resp'[t][m].product_id = items[n].product
                      /\ resp'[t][m].stock_before = stock
                      /\ resp'[t][m].stock_after = stock - required_units
                      /\ resp'[t][m].per_bundle_quantity = items[n].quantity]_vars

\* The Reward rows of a tier that transaction t sees: the committed rows and
\* its own.
RewardsSeenOfTier(t, rs, tier) ==
  {r \in rewards \cup rs : r.user = Buyer
      /\ (r.tier = tier.id \/ (r.tier = 0 /\ r.title = tier.title))}

\* C15: when the reward progression of a checkout has run, the buyer holds a
\* Reward of an active tier exactly when the tier was already granted or all
\* five thresholds are at most the counters the progression has just written.
C15_RewardIffGrantedOrReached ==
  [][\A t \in Procs :
       pc[t] = "rw_grant" /\ pc'[t] = "commit" =>
         \A tier \in {x \in RewardTiers : x.is_active} :
           RewardsSeenOfTier(t, txRewards'[t], tier) # {}
             <=> \/ RewardsSeenOfTier(t, txRewards[t], tier) # {}
                 \/ /\ tier.min_orders <= prog[t].total_orders
                    /\ tier.min_waste_kg <= prog[t].total_waste_kg
                    /\ tier.min_co2_kg <= prog[t].total_co2_kg
                    /\ tier.min_producers_supported <= prog[t].producers_supported
                    /\ tier.min_savings_eur <= prog[t].total_savings_eur]_vars

\* A progression has granted the first waste tier and not the second, and
\* another one has found the first tier already granted and added nothing.
C15_Witness ==
  \E t \in Procs, u \in Procs :
    /\ t # u
    /\ pc[t] = "commit"
    /\ txRewards[t] = {}
    /\ \E r \in rewards : r.title = "eco-debutant" /\ r.id[1] = u
    /\ \A r \in rewards : r.title # "eco-heros"
    /\ prog[t].total_waste_kg >= 1

\* The companies behind the components of the lines of order o, as the live
\* catalogue gives them for the products named in the snapshots.
ProducersOfOrder(o) ==
  UNION { { productRow[i.bundle_snapshot.products[n].product_id].company
              : n \in 1..Len(i.bundle_snapshot.products) }
          : i \in ItemsOfOrder(orderItems, o) }

\* C16: once a successful order is committed, the producer of every component
\* of every purchased bundle is in the buyer's seen_producer_ids, and
\* producers_supported is the size of that set.
C16_ProducersSeen ==
  \A o \in Procs : outcome[o] = "created201" =>
    /\ progressRow.exists
    /\ ProducersOfOrder(o) \subseteq progressRow.seen_producer_ids
    /\ progressRow.producers_supported = Cardinality(progressRow.seen_producer_ids)

\* The attribution of component e of a snapshot agrees with product p's
\* company and that company's owner.
ComponentAttributed(e, p) ==
  /\ {"company_id", "company_name", "producer_id", "producer_name"} \subseteq DOMAIN e
  /\ e.company_id = productRow[p].company
  /\ e.company_name = companyRow[productRow[p].company].name
  /\ e.producer_id = companyRow[productRow[p].company].owner
  /\ e.producer_name = producerRow[companyRow[productRow[p].company].owner].name

\* C17: in the snapshot a checkout writes, every component entry carries the
\* company and producer of its own product as they are at checkout (the
\* catalogue does not change while the checkouts run).
C17_SnapshotAttributesEveryComponent ==
  \A i \in orderItems :
    \A n \in 1..Len(i.bundle_snapshot.products) :
      ComponentAttributed(i.bundle_snapshot.products[n],
                          i.bundle_snapshot.products[n].product_id)

\* The impact a line of `quantity` bundles should carry: every component of
\* the purchased bundle contributes its units, over the quantity of its
\* ProductImpact row, times the row's impact.
ExpectedLineImpact(i) ==
  LET ps == i.bundle_snapshot.products
      units(n) == ps[n].per_bundle_quantity * i.quantity
      imp(n) == ProductImpactRows[ps[n].product_id]
  IN [waste |-> SumSeq([n \in 1..Len(ps) |->
                   (units(n) * imp(n).avoided_waste_kg) \div imp(n).quantity]),
      co2 |-> SumSeq([n \in 1..Len(ps) |->
                   (units(n) * imp(n).avoided_co2_kg) \div imp(n).quantity])]

\* C18: every order line stores the avoided waste and CO2 of its components
\* for the purchased quantity, whether the checkout or a correction command
\* wrote them.
C18_LineImpactFromComponents ==
  \A i \in orderItems : i.is_active =>
    /\ i.order_item_total_avoided_waste_kg = ExpectedLineImpact(i).waste
    /\ i.order_item_total_avoided_co2_kg = ExpectedLineImpact(i).co2

\* C19: a line whose snapshot names a company is attributed, in the impact
\* report and in the company cohorts, to that company under the name the
\* snapshot recorded, whatever the live catalogue has become.
C19_ReportsFollowSnapshot ==
  \A i \in ScopedItems(AdminScope) :
    LET snap == i.bundle_snapshot
    IN Get(snap, "company_id", None) # None =>
         /\ ImpactAttribution(AdminScope, i).company_id = snap.company_id
         /\ ImpactAttribution(AdminScope, i).company_name = snap.company_name
         /\ i.total_price > 0 => DOMAIN company_pbq(AdminScope, i) = {snap.company_id}

\* The components of line i, as its snapshot lists them, that name no company
\* in the snapshot and whose product is no longer in the live bundle.
UnresolvedComponents(i) ==
  LET ps == i.bundle_snapshot.products
      live(n) == /\ i.bundle # None
                 /\ \E m \in 1..Len(bundleItems[i.bundle]) :
                       bundleItems[i.bundle][m].product = ps[n].product_id
  IN {n \in 1..Len(ps) : Get(ps[n], "company_id", None) = None /\ ~live(n)}

\* C20: a line with a component that resolves to no company, while its
\* other components resolve in the live bundle, leaves that component's
\* proportional share unattributed: every company receives its share of all
\* the components, and the attributed revenue is not the whole total_price.
C20_UnresolvedShareUnattributed ==
  \A i \in ScopedItems(AdminScope) :
    (i.total_price > 0 /\ UnresolvedComponents(i) # {}
       /\ CompaniesOf(LiveComponents(i.bundle)) # {}) =>
      LET ps == i.bundle_snapshot.products
          all_pbq == SumSeq([n \in 1..Len(ps) |-> ps[n].per_bundle_quantity])
          pbqs == company_pbq(AdminScope, i)
          rev == LineCompanyRevenue(AdminScope, i)
      IN /\ \A c \in DOMAIN rev :
              rev[c] = FloatMul(float(i.total_price), TrueDiv(pbqs[c], all_pbq))
         /\ FloatSumOver(rev, DOMAIN rev) # float(i.total_price)

\* C21: in the producer-share report every company behind a component of a
\* line is credited, for that line, total_price times the per-bundle quantity
\* of its components over the per-bundle quantity of all the components.
C21_ProducerShareWeighted ==
  \A o \in get_orders(AdminScope) :
    LET lines == {i \in ItemsOfOrder(orderItems, o) : i.total_price > 0}
    IN \A i \in lines :
         (lines = {i} /\ AllComponentsResolve(i)) =>
            \A c \in CompaniesOf(ComponentCompanies(i)) :
              /\ c \in DOMAIN by_producer(o)
              /\ by_producer(o)[c] = ProportionalShare(i, c)

\* C22: no step of a checkout lowers a counter of the buyer's progress row
\* or removes a producer from seen_producer_ids.
C22_ProgressMonotonic ==
  [][progressRow.exists =>
       /\ progressRow'.exists
       /\ progressRow'.total_orders >= progressRow.total_orders
       /\ progressRow'.total_waste_kg >= progressRow.total_waste_kg
       /\ progressRow'.total_co2_kg >= progressRow.total_co2_kg
       /\ progressRow'.total_savings_eur >= progressRow.total_savings_eur
       /\ progressRow'.producers_supported >= progressRow.producers_supported
       /\ progressRow.seen_producer_ids \subseteq progressRow'.seen_producer_ids]_vars

\* C23: the savings stored on a line are (original_price - discounted_price)
\* x quantity at the prices of its snapshot, whatever the bundle's prices
\* have become and however often the line has been saved again.
C23_SavingsFromSnapshot ==
  \A i \in orderItems :
    i.order_item_savings =
      (i.bundle_snapshot.original_price - i.bundle_snapshot.discounted_price) * i.quantity

\* The bundle of a line has been repriced and the line has been written again
\* by the impact correction.
C23_Witness ==
  \E i \in orderItems :
    /\ i.bundle # 0 /\ bundleRow[i.bundle].exists
    /\ bundleRow[i.bundle].discounted_price # i.bundle_snapshot.discounted_price
    /\ i.order_item_total_avoided_co2_kg = BundleImpact(i.bundle).co2
    /\ i.order_item_total_avoided_co2_kg \notin ClientImpacts
    /\ i.order_item_savings > 0

\* C24: the components of every bundle belong to one company.
C24_BundleOfOneCompany ==
  \A b \in BundleIds : bundleRow[b].exists =>
    Cardinality({productRow[bundleItems[b][n].product].company :
                   n \in 1..Len(bundleItems[b])}) <= 1

\* C25: a checkout that has read a line with quantity <= 0 ends without
\* writing anything: orders, lines, stocks, sold counters and the progress row
\* are as before the request.
C25_BadQuantityNoEffect ==
  [][\A t \in Procs :
       (/\ outcome[t] = "none" /\ outcome'[t] # "none"
        /\ \E n \in 1..Len(req[t]) : req[t][n].quantity <= 0)
       => /\ outcome'[t] # "created201"
          /\ UNCHANGED dbVars]_vars

\* C26: the stock of every bundle is covered by the stock of each of its
\* components: stock x per-bundle quantity <= product stock.
C26_BundleStockCovered ==
  \A b \in BundleIds : bundleRow[b].exists =>
    \A n \in 1..Len(bundleItems[b]) :
      bundleRow[b].stock * bundleItems[b][n].quantity
         <= productRow[bundleItems[b][n].product].stock

\* C27: in the company cohorts, the revenue of a line credited to a company
\* of the requesting producer is the revenue the admin scope credits to that
\* company for the line.
C27_ScopeKeepsCompanyRevenue ==
  \A scope \in ProducerIds :
    \A i \in ScopedItems(scope) :
      i.total_price > 0 =>
        \A c \in DOMAIN company_pbq(scope, i) :
          /\ c \in DOMAIN company_pbq(AdminScope, i)
          /\ LineCompanyRevenue(scope, i)[c] = LineCompanyRevenue(AdminScope, i)[c]

\* ------------------------------------------------------------ cart requests
\* CartViewSet (views.py:1652-1969) and CartItemDetail (views.py:1978-2016),
\* called by the authenticated buyer and by a guest with a session key.
MaxCartOps == 3
GuestKey == 1
Actors == {[user |-> Buyer, key |-> NoSession], [user |-> NoUser, key |-> GuestKey]}
\* Values of the field "quantity" of the request body.
AddQuantities == {0, 2}
PatchQuantities == {0, 2}

SetMax(S) == CHOOSE c \in S : \A d \in S : d <= c

CartItemIds ==
  {ci.id : ci \in cartItems} \cup UNION {{ci.id : ci \in cartTx[t].ins} : t \in CartProcs}

NextCartItemId == IF CartItemIds = {} THEN 1 ELSE SetMax(CartItemIds) + 1

CartItemLockedByOther(t, id) == \E o \in CartProcs \ {t} : id \in cartTx[o].lock

\* An INSERT or UPDATE that would collide with an uncommitted insert of
\* another transaction waits on the unique index until that one ends.
PendingInsertByOther(t, cart, b) ==
  \E o \in CartProcs \ {t} : \E ci \in cartTx[o].ins :
     ci.cart = cart /\ ci.bundle = b /\ ci.is_active

\* A CartItem table without the unique constraint.
UniqueViolation_NoConstraint(items, row) == FALSE

\* models.py:673-679: uniq_active_cart_bundle, UNIQUE (cart, bundle) WHERE
\* is_active.  Writing row next to items raises IntegrityError.
UniqueViolation(items, row) ==
  /\ row.is_active
  /\ \E ci \in items :
       ci.id # row.id /\ ci.is_active /\ ci.cart = row.cart /\ ci.bundle = row.bundle

\* CartItem.objects.filter(cart=..., bundle=..., is_active=True)
ActiveItemsOf(items, cart, b) ==
  {ci \in items : ci.is_active /\ ci.cart = cart /\ ci.bundle = b}

\* cached_first (views.py:121-127) of an unordered queryset; the rows come
\* in id order.
FirstItem(S) == CHOOSE ci \in S : \A d \in S : ci.id <= d.id

RECURSIVE CartItemsInOrder(_)
CartItemsInOrder(S) ==
  IF S = {} THEN <<>> ELSE <<FirstItem(S)>> \o CartItemsInOrder(S \ {FirstItem(S)})

ReplaceItem(items, new) == {IF ci.id = new.id THEN new ELSE ci : ci \in items}

\* What the statements of transaction t read: the committed rows under t's
\* own uncommitted updates, and t's own uncommitted inserts.
OwnCartItems(t) ==
  { IF \E u \in cartTx[t].upd : u.id = ci.id
    THEN CHOOSE u \in cartTx[t].upd : u.id = ci.id ELSE ci : ci \in cartItems }
  \cup cartTx[t].ins

EndCartRequest(t, status) ==
  /\ cartPc' = [cartPc EXCEPT ![t] = "idle"]
  /\ cartReq' = [cartReq EXCEPT ![t] = [kind |-> "none", status |-> status]]

CartFrame ==
  UNCHANGED <<dbVars, catalogVars, pc, localVars, txVars, outcome, resp, cmdVars, stock0,
              report, rateVars>>

\* views.py:1678-1734: POST cart/items/ resolves the cart (creating it when
\* the caller has none), clamps the quantity to at least 1 and looks the
\* bundle up among the active ones.
AddStart(t) ==
  /\ cartPc[t] = "idle"
  /\ cartOps < MaxCartOps
  /\ \E a \in Actors, b \in BundleIds, q \in AddQuantities :
       LET qty == IF q > 1 THEN q ELSE 1
       IN /\ cartRow' = CartsAfterGetOrCreate(cartRow, a.user, a.key)
          /\ IF bundleRow[b].exists /\ bundleRow[b].is_active
             THEN /\ cartReq' = [cartReq EXCEPT ![t] =
                       [kind |-> "add", status |-> 0,
                        cart |-> get_or_create_cart(cartRow, a.user, a.key),
                        bundle |-> b, quantity |-> qty]]
                  /\ cartPc' = [cartPc EXCEPT ![t] = "add_read"]
             ELSE EndCartRequest(t, 404)
  /\ cartOps' = cartOps + 1
  /\ UNCHANGED <<cartItems, cartTx>>
  /\ CartFrame

\* views.py:1736-1763: inside the atomic block the active item of the bundle
\* is read FOR UPDATE; when there is one its quantity is increased, the row
\* is saved and the block is left (200).
AddRead(t) ==
  /\ cartPc[t] = "add_read"
  /\ LET r == cartReq[t]
         found == ActiveItemsOf(cartItems, r.cart, r.bundle)
     IN IF found # {}
        THEN LET existing == FirstItem(found)
             IN /\ ~CartItemLockedByOther(t, existing.id)
                /\ cartItems' = ReplaceItem(cartItems,
                                  [existing EXCEPT !.quantity = @ + r.quantity])
                /\ EndCartRequest(t, 200)
        ELSE /\ cartPc' = [cartPc EXCEPT ![t] = "add_insert"]
             /\ UNCHANGED <<cartItems, cartReq>>
  /\ UNCHANGED <<cartRow, cartTx, cartOps>>
  /\ CartFrame

\* views.py:1764-1779: no active item was read, a row is inserted and the
\* block is left (201); the IntegrityError of the unique constraint leaves
\* the block by exception (500).
AddInsert(t) ==
  /\ cartPc[t] = "add_insert"
  /\ LET r == cartReq[t]
         row == [id |-> NextCartItemId, cart |-> r.cart, bundle |-> r.bundle,
                 quantity |-> r.quantity, is_active |-> TRUE]
     IN /\ ~PendingInsertByOther(t, r.cart, r.bundle)
        /\ IF UniqueViolation(cartItems, row)
           THEN cartItems' = cartItems /\ EndCartRequest(t, 500)
           ELSE cartItems' = cartItems \cup {row} /\ EndCartRequest(t, 201)
  /\ UNCHANGED <<cartRow, cartTx, cartOps>>
  /\ CartFrame

\* views.py:1913-1943: POST cart/merge/ of the buyer with the guest's session
\* key.  Without an active guest cart the buyer's cart is returned (created
\* when missing).  Otherwise the atomic block is entered, the buyer's cart is
\* created in it when missing, and the active guest items are read FOR
\* UPDATE.
MergeStart(t) ==
  /\ cartPc[t] = "idle"
  /\ cartOps < MaxCartOps
  /\ LET users == ActiveCartsOf(cartRow, Buyer, NoSession)
         guests == ActiveCartsOf(cartRow, NoUser, GuestKey)
     IN IF guests = {}
        THEN /\ cartRow' = CartsAfterGetOrCreate(cartRow, Buyer, NoSession)
             /\ EndCartRequest(t, 200)
             /\ cartTx' = cartTx
        ELSE LET guest_cart == SetMax(guests)
                 user_cart == IF users # {} THEN SetMax(users) ELSE Len(cartRow) + 1
                 guest_items == {ci \in cartItems : ci.cart = guest_cart /\ ci.is_active}
             IN /\ \A ci \in guest_items : ~CartItemLockedByOther(t, ci.id)
                /\ cartRow' = IF users # {} THEN cartRow
                              ELSE Append(cartRow, NewCart(Buyer, NoSession, t))
                /\ cartReq' = [cartReq EXCEPT ![t] =
                     [kind |-> "merge", status |-> 0, cart |-> user_cart,
                      guest_cart |-> guest_cart, todo |-> CartItemsInOrder(guest_items)]]
                /\ cartTx' = [cartTx EXCEPT ![t].lock = {ci.id : ci \in guest_items}]
                /\ cartPc' = [cartPc EXCEPT ![t] = "merge_loop"]
  /\ cartOps' = cartOps + 1
  /\ UNCHANGED cartItems
  /\ CartFrame

\* The cart row a rolled back transaction had inserted is gone.
DropPendingCarts(carts, t) ==
  [c \in DOMAIN carts |->
     IF carts[c].pending = t
     THEN [user |-> NoUser, session_key |-> NoSession, is_active |-> FALSE, pending |-> 0]
     ELSE carts[c]]

CommitPendingCarts(carts, t) ==
  [c \in DOMAIN carts |->
     IF carts[c].pending = t THEN [carts[c] EXCEPT !.pending = 0] ELSE carts[c]]

\* views.py:1924-1961: one round of the loop over the guest items.  The
\* buyer's active item of the same bundle gets the guest quantity added;
\* without one a row is created with the guest quantity.
MergeItem(t) ==
  /\ cartPc[t] = "merge_loop"
  /\ cartReq[t].todo # <<>>
  /\ LET r == cartReq[t]
         gi == Head(r.todo)
         found == ActiveItemsOf(OwnCartItems(t), r.cart, gi.bundle)
     IN IF found # {}
        THEN LET existing == FirstItem(found)
                 saved == [existing EXCEPT !.quantity = @ + gi.quantity]
             IN /\ ~CartItemLockedByOther(t, existing.id)
                /\ cartTx' = [cartTx EXCEPT ![t] =
                     IF existing \in @.ins
                     THEN [@ EXCEPT !.ins = (@ \ {existing}) \cup {saved}]
                     ELSE [@ EXCEPT !.upd = {u \in @ : u.id # existing.id} \cup {saved},
                                    !.lock = @ \cup {existing.id}]]
                /\ cartReq' = [cartReq EXCEPT ![t].todo = Tail(@)]
                /\ UNCHANGED <<cartPc, cartRow>>
        ELSE LET row == [id |-> NextCartItemId, cart |-> r.cart, bundle |-> gi.bundle,
                         quantity |-> IF gi.quantity = 0 THEN 1 ELSE gi.quantity,
                         is_active |-> TRUE]
             IN /\ ~PendingInsertByOther(t, r.cart, gi.bundle)
                /\ IF UniqueViolation(cartItems, row)
                   THEN /\ cartTx' = [cartTx EXCEPT ![t] = NoCartTx]
                        /\ cartRow' = DropPendingCarts(cartRow, t)
                        /\ EndCartRequest(t, 500)
                   ELSE /\ cartTx' = [cartTx EXCEPT ![t].ins = @ \cup {row}]
                        /\ cartReq' = [cartReq EXCEPT ![t].todo = Tail(@)]
                        /\ UNCHANGED <<cartPc, cartRow>>
  /\ UNCHANGED <<cartItems, cartOps>>
  /\ CartFrame

\* views.py:1963-1969: after the loop the active items of the guest cart and
\* the guest cart are deactivated, and the block is left.
MergeFinish(t) ==
  /\ cartPc[t] = "merge_loop"
  /\ cartReq[t].todo = <<>>
  /\ LET r == cartReq[t]
     IN /\ \A ci \in cartItems :
             (ci.cart = r.guest_cart /\ ci.is_active) => ~CartItemLockedByOther(t, ci.id)
        /\ cartItems' =
             { IF ci.cart = r.guest_cart /\ ci.is_active
               THEN [ci EXCEPT !.is_active = FALSE] ELSE ci : ci \in OwnCartItems(t) }
        /\ cartRow' = [CommitPendingCarts(cartRow, t) EXCEPT ![r.guest_cart].is_active = FALSE]
  /\ cartTx' = [cartTx EXCEPT ![t] = NoCartTx]
  /\ EndCartRequest(t, 200)
  /\ UNCHANGED cartOps
  /\ CartFrame

\* views.py:1995-2016: CartItemDetail.patch looks the item up among all the
\* rows of the caller's cart, deactivates it for a quantity <= 0 and
\* otherwise saves it active with the new quantity.
CartItemDetail_patch(t) ==
  /\ cartPc[t] = "idle"
  /\ cartOps < MaxCartOps
  /\ \E a \in Actors, pk \in {ci.id : ci \in cartItems}, q \in PatchQuantities :
       LET cart == get_or_create_cart(cartRow, a.user, a.key)
           found == CHOOSE ci \in cartItems : ci.id = pk
           saved == IF q <= 0 THEN [found EXCEPT !.is_active = FALSE]
                    ELSE [found EXCEPT !.is_active = TRUE, !.quantity = q]
       IN /\ cartRow' = CartsAfterGetOrCreate(cartRow, a.user, a.key)
          /\ IF found.cart # cart
             THEN cartItems' = cartItems /\ EndCartRequest(t, 404)
             ELSE /\ ~CartItemLockedByOther(t, pk)
                  /\ q > 0 => ~PendingInsertByOther(t, found.cart, found.bundle)
                  /\ IF UniqueViolation(cartItems, saved)
                     THEN cartItems' = cartItems /\ EndCartRequest(t, 500)
                     ELSE /\ cartItems' = ReplaceItem(cartItems, saved)
                          /\ EndCartRequest(t, IF q <= 0 THEN 204 ELSE 200)
  /\ cartOps' = cartOps + 1
  /\ UNCHANGED cartTx
  /\ CartFrame

\* views.py:1785-1828: DELETE and PATCH of cart/item/<id>/ look the item up
\* among the active rows of the caller's cart; DELETE and a quantity <= 0
\* deactivate it, a positive quantity is stored.
CartItemMethods == {"delete", "patch"}
CartViewSet_item(t) ==
  /\ cartPc[t] = "idle"
  /\ cartOps < MaxCartOps
  /\ \E a \in Actors, pk \in {ci.id : ci \in cartItems}, q \in PatchQuantities,
        method \in CartItemMethods :
       LET cart == get_or_create_cart(cartRow, a.user, a.key)
           found == CHOOSE ci \in cartItems : ci.id = pk
           saved == IF method = "delete" \/ q <= 0 THEN [found EXCEPT !.is_active = FALSE]
                    ELSE [found EXCEPT !.quantity = q]
       IN /\ cartRow' = CartsAfterGetOrCreate(cartRow, a.user, a.key)
          /\ IF found.cart # cart \/ ~found.is_active
             THEN cartItems' = cartItems /\ EndCartRequest(t, 404)
             ELSE /\ ~CartItemLockedByOther(t, pk)
                  /\ cartItems' = ReplaceItem(cartItems, saved)
                  /\ EndCartRequest(t, 200)
  /\ cartOps' = cartOps + 1
  /\ UNCHANGED cartTx
  /\ CartFrame

CartRequest(t) ==
  \/ AddStart(t)
  \/ AddRead(t)
  \/ AddInsert(t)
  \/ MergeStart(t)
  \/ MergeItem(t)
  \/ MergeFinish(t)
  \/ CartItemDetail_patch(t)
  \/ CartViewSet_item(t)

CartNext == \E t \in CartProcs : CartRequest(t)

CartInit == MaintenanceInit /\ bundleItems = DisjointCatalog

CartSpec == CartInit /\ [][CartNext]_vars

\* C28: a successful checkout removes only the purchased bundles from the
\* buyer's cart: every item that was active in the buyer's active cart and
\* whose bundle is not in the order is still active afterwards, and its cart
\* is still the buyer's active cart.
KeptCartItems(t) ==
  { ci \in cartItems :
      /\ ci.is_active
      /\ ActiveCartsOf(cartRow, Buyer, NoSession) # {}
      /\ ci.cart = get_or_create_cart(cartRow, Buyer, NoSession)
      /\ ci.bundle \notin purchased_bundle_ids(t) }

C28_OnlyPurchasedLeaveCart ==
  [][\A t \in Procs :
       (pc[t] = "commit" /\ outcome'[t] = "created201") =>
         \A ci \in KeptCartItems(t) :
           /\ ci \in cartItems'
           /\ ci.cart \in ActiveCartsOf(cartRow', Buyer, NoSession)]_vars

\* C29: in every state a cart has at most one active item per bundle and
\* every active item has a quantity of at least 1; an add request that finds
\* the bundle active in the cart raises the quantity of that item and creates
\* no row, and a row is created only for a bundle that is not active in the
\* cart.  Concurrent adds, the guest-to-user merge and the reactivation by
\* CartItemDetail.patch are all among the steps.
OneActiveItemPerBundle ==
  \A ci \in cartItems, d \in cartItems :
     (ci.is_active /\ d.is_active /\ ci.cart = d.cart /\ ci.bundle = d.bundle) => ci = d

ActiveQuantitiesPositive == \A ci \in cartItems : ci.is_active => ci.quantity >= 1

AddRaisesQuantity(t) ==
  (cartPc[t] = "add_read" /\ cartPc'[t] = "idle") =>
     \E ci \in ActiveItemsOf(cartItems, cartReq[t].cart, cartReq[t].bundle) :
        cartItems' = (cartItems \ {ci})
                       \cup {[ci EXCEPT !.quantity = ci.quantity + cartReq[t].quantity]}

AddCreatesOnlyWhenAbsent(t) ==
  (cartPc[t] = "add_insert" /\ cartPc'[t] = "idle" /\ cartItems' # cartItems) =>
     ActiveItemsOf(cartItems, cartReq[t].cart, cartReq[t].bundle) = {}

C29_OneActiveItemPerCartBundle ==
  /\ [](OneActiveItemPerBundle /\ ActiveQuantitiesPositive)
  /\ [][\A t \in CartProcs : AddRaisesQuantity(t) /\ AddCreatesOnlyWhenAbsent(t)]_vars

\* The unique constraint has refused a second active row: two adds of the
\* same bundle raced on an empty cart and one of them was answered 500, and
\* a merge has summed a guest quantity onto the buyer's item.
C29_Witness ==
  /\ \E t \in CartProcs : cartReq[t].status = 500
  /\ \E c \in DOMAIN cartRow : ~cartRow[c].is_active /\ cartRow[c].session_key = GuestKey
  /\ \E ci \in cartItems : ci.is_active /\ ci.cart = 1 /\ ci.quantity >= 2

\* ---------------------------------------------------------- rating requests
\* OrderViewSet.rate_order and rate_order_item (views.py:1346-1395) run
\* outside any transaction: the checks read the rows, the save writes the
\* three rating columns of the instance read before.
Notes == {"", "bien"}

RateFrame ==
  UNCHANGED <<bundleRow, productRow, progressRow, rewards, catalogVars, pc, localVars,
              txVars, outcome, resp, cmdVars, stock0, report, cartVars>>

EndRateRequest(t, status) ==
  /\ ratePc' = [ratePc EXCEPT ![t] = "idle"]
  /\ rateReq' = [rateReq EXCEPT ![t] = [kind |-> "none", status |-> status]]

\* views.py:1348-1360: the order is read and checked, the payload validated.
RateOrderCheck(t) ==
  /\ ratePc[t] = "idle"
  /\ \E o \in Procs, rating \in Ratings, note \in Notes :
       /\ orderRow[o].exists
       /\ IF orderRow[o].status # "delivered" \/ orderRow[o].customer_rating # None
          THEN EndRateRequest(t, 400)
          ELSE /\ ratePc' = [ratePc EXCEPT ![t] = "save_order"]
               /\ rateReq' = [rateReq EXCEPT ![t] =
                    [kind |-> "order", status |-> 0, order |-> o,
                     rating |-> rating, note |-> note]]
  /\ UNCHANGED <<orderRow, orderItems, rateClock>>
  /\ RateFrame

\* views.py:1362-1367
RateOrderSave(t) ==
  /\ ratePc[t] = "save_order"
  /\ orderRow' = [orderRow EXCEPT ![rateReq[t].order] =
       [@ EXCEPT !.customer_rating = rateReq[t].rating,
                 !.customer_note = rateReq[t].note,
                 !.rated_at = rateClock + 1]]
  /\ rateClock' = rateClock + 1
  /\ EndRateRequest(t, 200)
  /\ UNCHANGED orderItems
  /\ RateFrame

\* views.py:1371-1384: the order is read and checked, the active item of the
\* order is read and checked, the payload validated.
RateItemCheck(t) ==
  /\ ratePc[t] = "idle"
  /\ \E i \in orderItems, rating \in Ratings, note \in Notes :
       /\ i.is_active
       /\ orderRow[i.order].exists
       /\ IF orderRow[i.order].status # "delivered" \/ i.customer_rating # None
          THEN EndRateRequest(t, 400)
          ELSE /\ ratePc' = [ratePc EXCEPT ![t] = "save_item"]
               /\ rateReq' = [rateReq EXCEPT ![t] =
                    [kind |-> "item", status |-> 0, order |-> i.order, item |-> i.id,
                     rating |-> rating, note |-> note]]
  /\ UNCHANGED <<orderRow, orderItems, rateClock>>
  /\ RateFrame

\* views.py:1386-1395: item.save(update_fields=...) writes the rating columns
\* of the row, then OrderItem.save refreshes the order totals.
RateItemSave(t) ==
  /\ ratePc[t] = "save_item"
  /\ orderItems' =
       { IF i.id = rateReq[t].item
         THEN [i EXCEPT !.customer_rating = rateReq[t].rating,
                        !.customer_note = rateReq[t].note,
                        !.rated_at = rateClock + 1]
         ELSE i : i \in orderItems }
  /\ orderRow' = RefreshOrderTotals(orderRow, orderItems', {rateReq[t].order})
  /\ rateClock' = rateClock + 1
  /\ EndRateRequest(t, 200)
  /\ RateFrame

RateRequest(t) ==
  \/ RateOrderCheck(t)
  \/ RateOrderSave(t)
  \/ RateItemCheck(t)
  \/ RateItemSave(t)

\* One checkout, its delivery, and two clients rating the order and its line.
RatingNext ==
  \/ LineCheckout(1)
  \/ \E o \in Procs : MarkDelivered(o)
  \/ \E t \in RateProcs : RateRequest(t)

RatingSpec == CartInit /\ [][RatingNext]_vars

\* C30: an order and an order item are rated only while the order is
\* delivered, and only once: from the moment customer_rating is set, no
\* later or concurrent rate request changes the stored rating, note or
\* rated_at.
RatingOf(row) ==
  [customer_rating |-> row.customer_rating, customer_note |-> row.customer_note,
   rated_at |-> row.rated_at]

C30_RatedOnceWhenDelivered ==
  [][/\ \A o \in Procs :
          orderRow[o].exists =>
            /\ orderRow[o].customer_rating # None =>
                 RatingOf(orderRow'[o]) = RatingOf(orderRow[o])
            /\ RatingOf(orderRow'[o]) # RatingOf(orderRow[o]) =>
                 orderRow[o].status = "delivered"
     /\ \A i \in orderItems : \A j \in orderItems' :
          j.id = i.id =>
            /\ i.customer_rating # None => RatingOf(j) = RatingOf(i)
            /\ RatingOf(j) # RatingOf(i) => orderRow[i.order].status = "delivered"]_vars

\* The committed orders of successful checkouts.
SuccessfulOrders == Answered("created201")

\* C10: once every checkout has been answered the progress row counts every
\* successful order and holds the sum of their totals.
C10_ProgressReflectsAllOrders ==
  (\A t \in Clients : pc[t] = "done") /\ SuccessfulOrders # {} =>
     /\ progressRow.exists
     /\ progressRow.total_orders = Cardinality(SuccessfulOrders)
     /\ progressRow.total_waste_kg =
          SumOver([t \in Procs |-> orderRow[t].order_total_avoided_waste_kg], SuccessfulOrders)
     /\ progressRow.total_co2_kg =
          SumOver([t \in Procs |-> orderRow[t].order_total_avoided_co2_kg], SuccessfulOrders)
     /\ progressRow.total_savings_eur =
          SumOver([t \in Procs |-> orderRow[t].order_total_savings], SuccessfulOrders)

====
